---- MODULE Spec2Model ----
(***************************************************************************)
(* Model of the notification bot: the dropdown content cache and its       *)
(* refresh loop, the per-guild settings, the last-sent ledger, the         *)
(* notification pass (runNotificationJob) and its two triggers: the        *)
(* minute-gated scheduler of the MongoDB build (unnamed/part_000) and the  *)
(* 5-minute interval of the file build (src/bot.js).                       *)
(***************************************************************************)
EXTENDS Integers, Sequences, FiniteSets, TLC

\* ---------------------------------------------------------------- bounds
\* configuration changes, refresh runs and failures in one behaviour
MaxEvents == 2
\* notification passes started in one behaviour
MaxPass == 2
\* runs of one interval callback in progress at once
MaxActive == 2
\* firings of an interval callback while its earlier run is still suspended
MaxOverlap == 0

\* items of a scraped list whose command names are made
MaxItems == 3

\* full chunks of the longest content that is chunked
MaxChunks == 2
\* how far from a multiple of the chunk size the sampled lengths lie
Margin == 2

\* ------------------------------------------------------- program constants
ChunkSize == 1900
MaxNameLen == 32
WindowStartHour == 15
WindowStartMinute == 33
WindowEndHour == 22
SlotStep == 30

\* ------------------------------------------------------------- universes
Variants == {"mongo", "file"}
Guilds == {"g1", "g2"}
Channels == {"c1", "c2"}
\* channels that guild.channels.cache still holds as text channels
LiveChannels == {"c1"}
Null == "null"
\* role ids of a guild
Roles == {"r1", "r2"}

\* item labels are sequences of one-character strings
LabelA == <<"a">>
LabelB == <<"B">>
Labels == {LabelA, LabelB}
\* the item lists getDropdownItems can scrape
ItemLists == {<<LabelA, LabelB>>}
\* a label that differs from LabelA in case only, and lists that hold both
LabelC == <<"A">>
CollidingLists == {<<LabelA, LabelC>>, <<LabelC, LabelA>>, <<LabelC, LabelB>>}

\* labels for the command names: one without letters or digits, one that is
\* the name a suffix gives, the names of the two fixed commands, and two
\* labels longer than a command name that agree in their first 32 characters
CommandLabels ==
  {LabelA, LabelC, <<"?">>, <<"a", "_", "1">>,
   <<"S", "e", "t", "t", "i", "n", "g", "s">>,
   <<"T", "e", "s", "t", "p", "i", "n", "g">>,
   [i \in 1..(MaxNameLen + 1) |-> "a"],
   [i \in 1..(MaxNameLen + 2) |-> IF i <= MaxNameLen THEN "a" ELSE "b"]}

\* the item lists of at most MaxItems of these labels
LabelLists ==
  UNION {[1..n -> CommandLabels] : n \in 0..MaxItems}

\* a content string is described by its identity and its length
Empty == [id |-> 0, len |-> 0]
ContentA == [id |-> 1, len |-> 5]
ContentB == [id |-> 2, len |-> ChunkSize + 1]
Contents == {Empty, ContentA, ContentB}

\* the lengths around the multiples of the chunk size, "" included, and one
\* content string of each of these lengths
SampleLengths ==
  {L \in 0..(MaxChunks * ChunkSize + Margin) :
     \/ L % ChunkSize <= Margin
     \/ L % ChunkSize >= ChunkSize - Margin}

ChunkInputs == {IF L = 0 THEN Empty ELSE [id |-> 4, len |-> L] : L \in SampleLengths}

\* wall-clock minutes of day (Central time) the clock visits, in order
SampleMinutes == <<933, 963>>

\* ---------------------------------------------------------------- helpers
Put(f, k, v) == [x \in (DOMAIN f) \cup {k} |-> IF x = k THEN v ELSE f[x]]

EmptyMap == [x \in {} |-> Empty]

SeqToSet(s) == {s[i] : i \in 1..Len(s)}

Min(a, b) == IF a < b THEN a ELSE b

\* String.prototype.toLowerCase on one character
ToLower(ch) ==
  CASE ch = "A" -> "a"
    [] ch = "B" -> "b"
    [] ch = "S" -> "s"
    [] ch = "T" -> "t"
    [] OTHER -> ch

IsAlnum(ch) ==
  ch \in {"a", "b", "e", "g", "i", "n", "p", "s", "t",
          "0", "1", "2", "3", "4", "5", "6", "7", "8", "9"}

\* .toLowerCase().replace(/[^a-z0-9]+/g, '_'): every run of other characters
\* becomes one underscore
RECURSIVE ReplaceRuns(_, _)
ReplaceRuns(s, inRun) ==
  IF s = <<>> THEN <<>>
  ELSE LET ch == ToLower(Head(s)) IN
       IF IsAlnum(ch) THEN <<ch>> \o ReplaceRuns(Tail(s), FALSE)
       ELSE IF inRun THEN ReplaceRuns(Tail(s), TRUE)
       ELSE <<"_">> \o ReplaceRuns(Tail(s), TRUE)

\* .replace(/^_+|_+$/g, '')
RECURSIVE StripLeading(_)
StripLeading(s) ==
  IF s # <<>> /\ Head(s) = "_" THEN StripLeading(Tail(s)) ELSE s

RECURSIVE StripTrailing(_)
StripTrailing(s) ==
  IF s # <<>> /\ s[Len(s)] = "_" THEN StripTrailing(SubSeq(s, 1, Len(s) - 1)) ELSE s

\* .replace(/_+/g, '_')
RECURSIVE CollapseUnderscores(_)
CollapseUnderscores(s) ==
  IF Len(s) < 2 THEN s
  ELSE IF s[1] = "_" /\ s[2] = "_" THEN CollapseUnderscores(Tail(s))
  ELSE <<s[1]>> \o CollapseUnderscores(Tail(s))

normalizeDropdownName(name) ==
  LET n == CollapseUnderscores(StripTrailing(StripLeading(ReplaceRuns(name, FALSE))))
  IN SubSeq(n, 1, Min(Len(n), MaxNameLen))

\* ------------------------------------------------------------ command names
\* String(suffix): the decimal digits of a positive integer
RECURSIVE Digits(_)
Digits(k) ==
  LET d == <<"0", "1", "2", "3", "4", "5", "6", "7", "8", "9">>[(k % 10) + 1]
  IN IF k < 10 THEN <<d>> ELSE Digits(k \div 10) \o <<d>>

\* `_${suffix}`
SuffixText(suffix) == <<"_">> \o Digits(suffix)

\* a loop that appends the suffix to the whole name
RECURSIVE UniqueNameUnsliced(_, _, _, _)
UniqueNameUnsliced(name, uniqueName, suffix, usedNames) ==
  IF uniqueName \in usedNames \/ Len(uniqueName) = 0
  THEN UniqueNameUnsliced(name, name \o SuffixText(suffix), suffix + 1, usedNames)
  ELSE uniqueName

\* while (usedNames.has(uniqueName) || uniqueName.length === 0) {
\*   uniqueName = name.slice(0, 32 - (`_${suffix}`).length) + `_${suffix}`;
\*   suffix++; }
RECURSIVE UniqueName(_, _, _, _)
UniqueName(name, uniqueName, suffix, usedNames) ==
  IF uniqueName \in usedNames \/ Len(uniqueName) = 0
  THEN UniqueName(name,
                  SubSeq(name, 1, Min(Len(name), MaxNameLen - Len(SuffixText(suffix))))
                    \o SuffixText(suffix),
                  suffix + 1, usedNames)
  ELSE uniqueName

\* the name the ClientReady handler starts from for an item: the normalized
\* label, and name.slice(0, 32) if it is longer than 32
BaseName(item) == normalizeDropdownName(item)

\* commandNameToDropdownItem = {}
NoTable == [x \in {} |-> <<>>]

\* dropdownItems.map(...) of the ClientReady handler from item i on: names are
\* the names of the commands made so far, in order, and table is
\* commandNameToDropdownItem
RECURSIVE RegisterFrom(_, _, _, _)
RegisterFrom(items, i, names, table) ==
  IF i > Len(items) THEN [commands |-> names, table |-> table]
  ELSE LET name == BaseName(items[i])
           uniqueName == UniqueName(name, name, 1, SeqToSet(names))
       IN RegisterFrom(items, i + 1, Append(names, uniqueName),
                       Put(table, uniqueName, items[i]))


\* the loop "for (let i = 0; i < content.length; i += 1900)
\*   chunks.push(content.slice(i, i + 1900))": each chunk is the slice
\* [lo, hi) of the content
RECURSIVE ChunksFrom(_, _)
ChunksFrom(content, i) ==
  IF i < content.len
  THEN <<[id |-> content.id, lo |-> i, hi |-> Min(i + ChunkSize, content.len)]>>
       \o ChunksFrom(content, i + ChunkSize)
  ELSE <<>>

\* a chunker that drops the short slice at the end
ChunksWithoutTail(content) ==
  [n \in 1..(content.len \div ChunkSize) |->
     [id |-> content.id, lo |-> (n - 1) * ChunkSize, hi |-> n * ChunkSize]]

Chunks(content) == ChunksFrom(content, 0)

\* description: 'No content found.'
Placeholder == [id |-> 0 - 2, lo |-> 0, hi |-> 0]

\* messages that all carry the title and the mentions
MessageAlwaysPrimary(chunks, roleIds, j) ==
  [title |-> TRUE, mentions |-> roleIds,
   body |-> IF Len(chunks) = 0 THEN Placeholder ELSE chunks[j + 1]]

\* message j of a notification (runNotificationJob, /testping): message 0 is
\*   { content: roleMentions || undefined,
\*     embeds: [{ title: `Update: ${pageName}`, description: chunks[0] }] }
\* with the placeholder for the description when chunks.length === 0, and the
\* messages from 1 on are { embeds: [{ description: chunks[j] }] }
NotificationMessage(chunks, roleIds, j) ==
  IF j = 0
  THEN [title |-> TRUE, mentions |-> roleIds,
        body |-> IF Len(chunks) = 0 THEN Placeholder ELSE chunks[1]]
  ELSE [title |-> FALSE, mentions |-> {}, body |-> chunks[j + 1]]

\* number of channel.send calls of one notification: a single placeholder
\* message when chunks.length === 0
MessageCount(content) ==
  IF Len(Chunks(content)) = 0 THEN 1 ELSE Len(Chunks(content))

\* a matcher without the end of the window: every 30 minutes from 15:33 on
AllowedWithoutEnd(nowMinutes) ==
  /\ nowMinutes >= WindowStartHour * 60 + WindowStartMinute
  /\ (nowMinutes - (WindowStartHour * 60 + WindowStartMinute)) % SlotStep = 0

\* the while loop of notificationScheduler: t = 15*60+33; t <= 22*60; t += 30
RECURSIVE AllowedFrom(_, _)
AllowedFrom(nowMinutes, t) ==
  IF t <= WindowEndHour * 60
  THEN IF nowMinutes = t THEN TRUE ELSE AllowedFrom(nowMinutes, t + SlotStep)
  ELSE FALSE

Allowed(nowMinutes) ==
  AllowedFrom(nowMinutes, WindowStartHour * 60 + WindowStartMinute)

\* ------------------------------------------------------------------ state
VARIABLES
  variant,            \* which build runs: "mongo" (part_000) or "file" (src/bot.js)
  clock,              \* wall-clock minute of day, Central time
  dropdownItems,      \* the scraped item list
  cache,              \* dropdown cache: cache key -> content
  guildSettings,      \* sequence of settings records, in insertion order
  lastSentContent,    \* guildId -> (pageName -> last content sent)
  lastMinuteChecked,  \* the scheduler's last fired minute, NoMinute for null
  sched,              \* the scheduler chain: [st, now, ms, delay, left]
  passes,             \* runs of the notification job, by slot
  refresh,            \* runs of the refresh callback, by slot
  budget,             \* events the environment may still produce
  fullySent,          \* history: (guild, page, content) all of whose chunks were sent
  primaryCount,       \* history: first-chunk messages per pair since the cached content changed
  prev,               \* history: summary of the pass that ended last
  pending,            \* history: pairs newly watched since the last pass started
  unpaid,             \* history: pairs whose delivery failed and was not made up for
  minuteStat,         \* history: the gate's evaluations in the current minute
  command,            \* the run of an item command or of /testping
  saveFailure,        \* history: the last select interaction whose saveSettings failed
  commands,           \* the names of the item commands ClientReady made, in item order
  commandNameToDropdownItem,  \* command name -> item label
  guildSettingsCol,   \* the settings store: what saveSettings wrote last
  lastSentContentCol, \* the ledger store: what saveLastSentContent wrote last
  select,             \* runs of the select menu handler, by slot
  startup,            \* the call of startBot: position, environment, what it did
  millis,             \* milliseconds of the wall clock within its minute
  browserPage,        \* the shared Puppeteer page and the fetches on it
  scrape              \* a call of getAllDropdownItemsAndContent

vars == <<variant, clock, dropdownItems, cache, guildSettings, lastSentContent,
          lastMinuteChecked, sched, passes, refresh, budget, fullySent,
          primaryCount, prev, pending, unpaid, minuteStat, command, saveFailure,
          commands, commandNameToDropdownItem, guildSettingsCol,
          lastSentContentCol, select, startup, millis, browserPage, scrape>>

\* what the ClientReady handler sets
registration == <<commands, commandNameToDropdownItem>>

\* the two stores of saveSettings and saveLastSentContent
persisted == <<guildSettingsCol, lastSentContentCol>>

\* what the timers, the passes and the commands leave alone: the stepwise
\* select menu handler, the call of startBot, the clock's milliseconds
apart == <<select, startup, millis>>

\* the browser pages: the one page of the bot, the page of a scraper call
puppeteer == <<browserPage, scrape>>

NoMinute == -1
Unlimited == 0 - 1

Slots == 1..MaxActive

\* ------------------------------------------------------- settings registry
HasSettings(gs, g) == \E i \in 1..Len(gs) : gs[i].id = g

SettingsOf(gs, g) == gs[CHOOSE i \in 1..Len(gs) : gs[i].id = g]

\* roles: {} of a settings object without entries
NoRoles == [x \in {} |-> {}]

\* { pages: new Set(), roles: {}, channel: null }
DefaultSettings(g) == [id |-> g, pages |-> <<>>, roles |-> NoRoles, channel |-> Null]

\* (settings.roles && settings.roles[pageName]) ? Array.from(...) : []
RolesOf(settings, page) ==
  IF page \in DOMAIN settings.roles THEN settings.roles[page] ELSE {}

\* guildSettings[guildId] = settings, keeping the insertion order of the keys
StoreSettings(gs, rec) ==
  IF HasSettings(gs, rec.id)
  THEN [i \in 1..Len(gs) |-> IF gs[i].id = rec.id THEN rec ELSE gs[i]]
  ELSE Append(gs, rec)

\* the keys in the reverse of their insertion order
EntriesReversed(gs) == [i \in 1..Len(gs) |-> gs[Len(gs) + 1 - i].id]

\* Object.entries(guildSettings): the keys in insertion order
EntriesOf(gs) == [i \in 1..Len(gs) |-> gs[i].id]

\* ------------------------------------------------------------------ cache
CacheKey(item) ==
  IF variant = "file" THEN normalizeDropdownName(item) ELSE item

\* readDropdownCache: doc?.content || '' (mongo), readFile or '' (file)
readDropdownCache(c, item) ==
  IF CacheKey(item) \in DOMAIN c THEN c[CacheKey(item)] ELSE Empty

\* writeDropdownCache: upsert of the entry of the item
writeDropdownCache(c, item, content) == Put(c, CacheKey(item), content)


\* ------------------------------------------------------- notification pass
\* One run of runNotificationJob (mongo) or of the notification interval
\* callback (file).  pc is the await the run is suspended in:
\*   "read"  await readDropdownCache(pageName)
\*   "send"  await channel.send(...) of message j
\*   "save"  await saveLastSentContent()
\* entries is the array Object.entries(guildSettings) made when the run
\* started, pages the Set the inner loop iterates, and the fields from sent on
\* are history kept for the properties.
\*   msgs    pairs a message of this run was sent for
\*   exam    pairs this run read a non-empty content for (unchanged since)
\*   diff    the pairs of exam whose ledger entry differed from that content
\*   blank   pairs this run read an empty content for
\*   before  the summary of the run that ended before this one started
\*   solo    no other run was in progress while this one was
\*   owed    newly watched pairs this run is the next pass for
\*   out     the messages sent so far for the pair at (gi, pi)
\*   at      the position <<gi, pi, j>> of the message this run sent last
\* roleIds is the local roleIds of the notification in progress.
NoPosition == <<0, 0, 0>>

NoSummary == [ok |-> FALSE, exam |-> {}, msgs |-> {}, diff |-> {}]

IdlePass ==
  [pc |-> "idle", entries |-> <<>>, gi |-> 0, pages |-> <<>>, pi |-> 0,
   channel |-> Null, content |-> Empty, j |-> 0, roleIds |-> {},
   out |-> <<>>, at |-> NoPosition,
   msgs |-> {}, exam |-> {}, diff |-> {}, blank |-> {}, before |-> NoSummary,
   solo |-> TRUE, owed |-> {}, cause |-> "none", leftBehind |-> FALSE]

Ended(rec) == rec.pc \in {"idle", "done", "aborted"}

Active(rec) == ~Ended(rec)

PassGuild(rec) == rec.entries[rec.gi]

PassPage(rec) == rec.pages[rec.pi]

\* tests that forget the channel
EnterableWithoutChannel(gs, g) == SettingsOf(gs, g).pages # <<>>

\* the tests that let the loop body of a guild run:
\*   if (!settings.channel || !settings.pages || settings.pages.size === 0) continue;
\*   if (!guild) continue;
\*   if (!channel || channel.type !== 0) continue;
\* (the channels of a guild the client no longer holds are not live)
Enterable(gs, g) ==
  /\ SettingsOf(gs, g).channel # Null
  /\ SettingsOf(gs, g).pages # <<>>
  /\ SettingsOf(gs, g).channel \in LiveChannels

\* index of the first guild from position i on whose loop body runs, 0 if none
RECURSIVE FindNext(_, _, _)
FindNext(gs, entries, i) ==
  IF i > Len(entries) THEN 0
  ELSE IF Enterable(gs, entries[i]) THEN i
  ELSE FindNext(gs, entries, i + 1)

\* the run reaches the loop body of the first enterable guild from position i
\* on, up to its first await, or the end of the outer loop
EnterFrom(rec, i) ==
  LET n == FindNext(guildSettings, rec.entries, i) IN
  IF n = 0
  THEN [rec EXCEPT !.pc = "done", !.entries = <<>>, !.gi = 0, !.pages = <<>>,
                   !.pi = 0, !.channel = Null, !.content = Empty, !.j = 0,
                   !.roleIds = {}, !.out = <<>>]
  ELSE LET g == rec.entries[n]
       IN [rec EXCEPT !.pc = "read", !.gi = n,
                      !.pages = SettingsOf(guildSettings, g).pages, !.pi = 1,
                      !.channel = SettingsOf(guildSettings, g).channel,
                      !.content = Empty, !.j = 0, !.roleIds = {}, !.out = <<>>]

\* the run goes on after the page at pi: the next page of the Set, or the
\* next guild
AdvanceItem(rec) ==
  IF rec.pi < Len(rec.pages)
  THEN [rec EXCEPT !.pc = "read", !.pi = @ + 1, !.content = Empty, !.j = 0,
                   !.roleIds = {}, !.out = <<>>]
  ELSE EnterFrom(rec, rec.gi + 1)

\* an exception leaves the run: nothing after the failing await runs
Abort(rec, why) ==
  [rec EXCEPT !.pc = "aborted", !.cause = why,
              !.leftBehind = \/ rec.pi < Len(rec.pages)
                             \/ FindNext(guildSettings, rec.entries, rec.gi + 1) # 0,
              !.entries = <<>>, !.gi = 0, !.pages = <<>>, !.pi = 0,
              !.channel = Null, !.content = Empty, !.j = 0,
              !.roleIds = {}, !.out = <<>>]

\* a comparison that forgets the ledger: every non-empty content is sent
NeedsSendIgnoringLedger(content, led, page) == content # Empty

\* a comparison that forgets the test of the content: "" is sent as well
NeedsSendEmptyToo(content, led, page) ==
  page \notin DOMAIN led \/ led[page] # content

\* a comparison that takes an item that was watched again for one that was
\* never sent, as if unwatching had removed its ledger entry
NeedsSendForgetsRewatched(content, led, page) ==
  /\ content # Empty
  /\ \/ page \notin DOMAIN led
     \/ led[page] # content
     \/ \E k \in DOMAIN select : page \in select[k].again

\* if (content && content !== lastSentContent[guildId][pageName])
NeedsSend(content, led, page) ==
  /\ content # Empty
  /\ (page \notin DOMAIN led \/ led[page] # content)

\* if (!lastSentContent[guildId]) lastSentContent[guildId] = {}
EnsureLedger(led, rec) ==
  IF rec.pc = "read" /\ PassGuild(rec) \notin DOMAIN led
  THEN Put(led, PassGuild(rec), EmptyMap)
  ELSE led

\* what is kept of a run that ended, for the next run to compare with
Summary(rec) ==
  [ok |-> rec.solo /\ rec.pc = "done", exam |-> rec.exam,
   msgs |-> rec.msgs \cap rec.exam, diff |-> rec.diff]


\* ----------------------------------------------------------------- budget
\* passes are counted apart from the other events of the environment
Kind(what) == IF what \in {"pass", "overlap"} THEN what ELSE "events"

Can(what) == budget[Kind(what)] # 0

Spend(b, what) ==
  IF b[Kind(what)] = Unlimited THEN b ELSE [b EXCEPT ![Kind(what)] = @ - 1]

Bump(n) == IF n < 2 THEN n + 1 ELSE n

\* ---------------------------------------------------------------- actions
\* pairs of a set that a page reading one of these cache keys belongs to
OfKeys(set, keys) == {pr \in set : CacheKey(pr[2]) \in keys}

OfGuild(set, g) == {pr \in set : pr[1] = g}

\* the history of a run without the pairs prs
Without(rec, prs) ==
  [rec EXCEPT !.exam = @ \ prs, !.diff = @ \ prs, !.owed = @ \ prs,
              !.before = [@ EXCEPT !.exam = @ \ prs, !.msgs = @ \ prs, !.diff = @ \ prs]]

\* the pair whose send was rejected in the step from old to rec, if the cache
\* still holds the content the send was for
FailedPair(old, rec) ==
  IF /\ Active(old) /\ rec.pc = "aborted" /\ rec.cause = "send"
     /\ readDropdownCache(cache, PassPage(old)) = old.content
  THEN {<<PassGuild(old), PassPage(old)>>}
  ELSE {}

\* What a step of run k does to the state the runs share; paid are the pairs
\* whose notification the step completed and sc the locals of the scheduler.
\* The timer of notificationScheduler after
\*   setTimeout(notificationScheduler,
\*              60 * 1000 - (now.getSeconds() * 1000 + now.getMilliseconds()))
\* where ms is seconds * 1000 + milliseconds of now, the Date taken when the
\* evaluation started; left is the time until the timer is due.
Delay(ms) == 60 * 1000 - ms

Armed(ms) ==
  [st |-> "timer", now |-> NoMinute, ms |-> 0, delay |-> Delay(ms), left |-> Delay(ms)]

\* In the mongo build the run is awaited by notificationScheduler: when it
\* returns the scheduler sets lastMinuteChecked and re-arms its timer; when it
\* throws, the rejection leaves notificationScheduler before setTimeout.
PassEffects(k, old, rec, led, paid, sc) ==
  /\ passes' = [i \in Slots |->
                  IF i = k THEN [rec EXCEPT !.owed = @ \ paid]
                  ELSE IF Ended(old) /\ Active(passes[i])
                       THEN [passes[i] EXCEPT !.solo = FALSE, !.owed = @ \ paid]
                       ELSE [passes[i] EXCEPT !.owed = @ \ paid]]
  /\ lastSentContent' = EnsureLedger(led, rec)
  /\ prev' = IF Ended(rec) THEN Summary(rec) ELSE prev
  /\ pending' = IF Ended(old) THEN {} ELSE pending \ paid
  /\ unpaid' = (unpaid \ paid) \cup FailedPair(old, rec)
  /\ IF variant = "mongo"
     THEN /\ sched' = CASE rec.pc = "done" -> Armed(sc.ms)
                         [] rec.pc = "aborted" ->
                              [sc EXCEPT !.st = "dead", !.now = NoMinute, !.ms = 0]
                         [] OTHER -> [sc EXCEPT !.st = "running"]
          /\ lastMinuteChecked' = IF rec.pc = "done" THEN sc.now
                                  ELSE lastMinuteChecked
     ELSE UNCHANGED <<sched, lastMinuteChecked>>

Alone == \A i \in Slots : Ended(passes[i])

\* the record of a run that starts
StartPass ==
  EnterFrom([IdlePass EXCEPT !.entries = EntriesOf(guildSettings),
                             !.solo = Alone,
                             !.before = IF Alone THEN prev ELSE NoSummary,
                             !.owed = pending],
            1)

FreeSlot(k) ==
  /\ Ended(passes[k])
  /\ \A i \in Slots : i < k => Active(passes[i])

\* a gate without the lastMinuteChecked guard
GateOpenUnguarded(nowMinutes, last) == Allowed(nowMinutes)

\* the gate of notificationScheduler (mongo)
GateOpen(nowMinutes, last) == Allowed(nowMinutes) /\ last # nowMinutes

\* notificationScheduler, from its timer to its first await or to setTimeout
SchedulerFire ==
  /\ variant = "mongo"
  /\ sched.st = "timer"
  /\ LET nowMinutes == clock
         run == GateOpen(nowMinutes, lastMinuteChecked)
         sc == [sched EXCEPT !.now = nowMinutes, !.ms = millis]
     IN /\ run => Can("pass")
        /\ minuteStat' = [evals |-> Bump(minuteStat.evals),
                          fires |-> IF run THEN Bump(minuteStat.fires)
                                    ELSE minuteStat.fires,
                          allowed |-> Allowed(nowMinutes)]
        /\ IF run
           THEN /\ PassEffects(1, passes[1], StartPass, lastSentContent, {}, sc)
                /\ budget' = Spend(budget, "pass")
           ELSE /\ sched' = [sched EXCEPT !.delay = Delay(millis), !.left = Delay(millis)]
                /\ UNCHANGED <<passes, lastSentContent, prev, pending,
                               unpaid, lastMinuteChecked, budget>>
  /\ UNCHANGED <<variant, puppeteer, registration, persisted, apart, command, saveFailure, clock, dropdownItems, cache, guildSettings, refresh,
                 fullySent, primaryCount>>

\* the notification setInterval callback (file): every firing starts a run,
\* whether or not an earlier one is still suspended
IntervalFire(k) ==
  /\ variant = "file"
  /\ FreeSlot(k)
  /\ Can("pass")
  /\ Alone \/ Can("overlap")
  /\ budget' = Spend(IF Alone THEN budget ELSE Spend(budget, "overlap"), "pass")
  /\ PassEffects(k, passes[k], StartPass, lastSentContent, {}, sched)
  /\ UNCHANGED <<variant, puppeteer, registration, persisted, apart, command, saveFailure, clock, dropdownItems, cache, guildSettings, refresh,
                 fullySent, primaryCount, minuteStat>>

\* the ledger entry of a pair, NoEntry when there is none (undefined)
NoEntry == [id |-> 0 - 1, len |-> 0]

Entry(led, g, p) ==
  IF g \in DOMAIN led /\ p \in DOMAIN led[g] THEN led[g][p] ELSE NoEntry

\* await readDropdownCache(pageName) returns; the comparison with the ledger
\* and, if it asks for one, the call of the first channel.send follow
ReadDone(k) ==
  LET rec == passes[k]
      g == PassGuild(rec)
      p == PassPage(rec)
      c == readDropdownCache(cache, p)
      led == lastSentContent[g]
      saw == IF c = Empty
             THEN [rec EXCEPT !.blank = @ \cup {<<g, p>>}]
             ELSE [rec EXCEPT !.exam = @ \cup {<<g, p>>},
                              !.diff = IF Entry(lastSentContent, g, p) # c
                                       THEN @ \cup {<<g, p>>} ELSE @]
  IN /\ rec.pc = "read"
     /\ PassEffects(k, rec,
                    IF NeedsSend(c, led, p)
                    THEN [saw EXCEPT !.pc = "send", !.content = c, !.j = 0,
                                     !.roleIds = RolesOf(SettingsOf(guildSettings, g), p)]
                    ELSE AdvanceItem(saw),
                    lastSentContent, {}, sched)
     /\ UNCHANGED <<variant, puppeteer, registration, persisted, apart, command, saveFailure, clock, dropdownItems, cache, guildSettings, refresh,
                    budget, fullySent, primaryCount, minuteStat>>

\* readDropdownCache throws (mongo: findOne fails): catch, log, continue
ReadFail(k) ==
  LET rec == passes[k] IN
  /\ variant = "mongo"
  /\ rec.pc = "read"
  /\ Can("fail")
  /\ budget' = Spend(budget, "fail")
  /\ PassEffects(k, rec, AdvanceItem(rec), lastSentContent, {}, sched)
  /\ UNCHANGED <<variant, puppeteer, registration, persisted, apart, command, saveFailure, clock, dropdownItems, cache, guildSettings, refresh,
                 fullySent, primaryCount, minuteStat>>

\* an assignment that sets the entry of the page for every guild
SetLedgerEveryGuild(led, g, p, c) ==
  [x \in Guilds |-> Put(IF x \in DOMAIN led THEN led[x] ELSE EmptyMap, p, c)]

\* lastSentContent[guildId][pageName] = content
SetLedger(led, g, p, c) == [led EXCEPT ![g] = Put(led[g], p, c)]

\* a ledger that is set as soon as the first message was sent
LedgerSetAtFirstSend(led, g, p, c, j, n) == SetLedger(led, g, p, c)

\* the ledger after message j of a notification of n messages was sent
LedgerAfterSend(led, g, p, c, j, n) ==
  IF j + 1 < n THEN led ELSE SetLedger(led, g, p, c)

\* await channel.send(...) of message j returns: the next chunk is sent, or
\* the ledger is set and saveLastSentContent is called
SendDone(k) ==
  LET rec == passes[k]
      g == PassGuild(rec)
      p == PassPage(rec)
      c == rec.content
      n == MessageCount(c)
      last == ~(rec.j + 1 < n)
      told == [rec EXCEPT !.msgs = @ \cup {<<g, p>>},
                          !.out = Append(@, NotificationMessage(Chunks(c), rec.roleIds, rec.j)),
                          !.at = <<rec.gi, rec.pi, rec.j>>]
  IN /\ rec.pc = "send"
     /\ primaryCount' =
          IF rec.j = 0 /\ readDropdownCache(cache, p) = c
          THEN [primaryCount EXCEPT ![<<g, p>>] = Bump(@)]
          ELSE primaryCount
     /\ fullySent' = IF last THEN fullySent \cup {<<g, p, c>>} ELSE fullySent
     /\ PassEffects(k, rec,
                    IF last THEN [told EXCEPT !.pc = "save"]
                    ELSE [told EXCEPT !.j = @ + 1],
                    LedgerAfterSend(lastSentContent, g, p, c, rec.j, n),
                    IF last THEN {<<g, p>>} ELSE {}, sched)
     /\ UNCHANGED <<variant, puppeteer, registration, persisted, apart, command, saveFailure, clock, dropdownItems, cache, guildSettings, refresh,
                    budget, minuteStat>>

\* what a rejected channel.send does to the run: nothing catches it
AfterSendFailure(rec) == Abort(rec, "send")

\* await channel.send(...) rejects
SendFail(k) ==
  LET rec == passes[k] IN
  /\ rec.pc = "send"
  /\ Can("fail")
  /\ budget' = Spend(budget, "fail")
  /\ PassEffects(k, rec, AfterSendFailure(rec), lastSentContent, {}, sched)
  /\ UNCHANGED <<variant, puppeteer, registration, persisted, apart, command, saveFailure, clock, dropdownItems, cache, guildSettings, refresh,
                 fullySent, primaryCount, minuteStat>>

\* the ledger store after the guilds of written were written from led
\* (mongo: one upsert per guild; file: the whole object in one write)
LedgerWritten(col, led, written) ==
  [g \in (DOMAIN col) \cup written |-> IF g \in written THEN led[g] ELSE col[g]]

\* await saveLastSentContent() returns after its writes succeeded
SaveDone(k) ==
  LET rec == passes[k] IN
  /\ rec.pc = "save"
  /\ lastSentContentCol' =
       LedgerWritten(lastSentContentCol, lastSentContent, DOMAIN lastSentContent)
  /\ PassEffects(k, rec, AdvanceItem(rec), lastSentContent, {}, sched)
  /\ UNCHANGED <<variant, puppeteer, registration, guildSettingsCol, apart, command, saveFailure, clock, dropdownItems, cache, guildSettings, refresh,
                 budget, fullySent, primaryCount, minuteStat>>

\* await saveLastSentContent() returns although writeFile failed: the catch
\* of saveLastSentContent swallows the error (file) and the pass goes on
SaveSwallowed(k) ==
  LET rec == passes[k] IN
  /\ variant = "file"
  /\ rec.pc = "save"
  /\ Can("fail")
  /\ budget' = Spend(budget, "fail")
  /\ PassEffects(k, rec, AdvanceItem(rec), lastSentContent, {}, sched)
  /\ UNCHANGED <<variant, puppeteer, registration, persisted, apart, command, saveFailure, clock, dropdownItems, cache, guildSettings, refresh,
                 fullySent, primaryCount, minuteStat>>

\* await saveLastSentContent() rejects (mongo: an updateOne of the loop over
\* the guilds fails; the guilds before it, written, are in the store)
SaveFail(k) ==
  LET rec == passes[k] IN
  /\ variant = "mongo"
  /\ rec.pc = "save"
  /\ Can("fail")
  /\ budget' = Spend(budget, "fail")
  /\ \E written \in (SUBSET DOMAIN lastSentContent) \ {DOMAIN lastSentContent} :
       lastSentContentCol' = LedgerWritten(lastSentContentCol, lastSentContent, written)
  /\ PassEffects(k, rec, Abort(rec, "save"), lastSentContent, {}, sched)
  /\ UNCHANGED <<variant, puppeteer, registration, guildSettingsCol, apart, command, saveFailure, clock, dropdownItems, cache, guildSettings, refresh,
                 fullySent, primaryCount, minuteStat>>

\* ---------------------------------------------------------------- refresh
\* One run of the refresh setInterval callback: the page is reloaded and the
\* item list scraped, then updateAllDropdownCache walks the list.  pc "fetch"
\* is await getContentForDropdownItem(page, item) of the item at idx; outcomes
\* is the history of the items the run is through with.
IdleRefresh == [pc |-> "idle", items |-> <<>>, idx |-> 0, outcomes |-> <<>>]

RefreshEnded(r) == r.pc \in {"idle", "done"}

FreeRefreshSlot(k) ==
  /\ RefreshEnded(refresh[k])
  /\ \A i \in Slots : i < k => ~RefreshEnded(refresh[i])

NoRefresh == \A i \in Slots : RefreshEnded(refresh[i])

\* the callback fires; scraped is what getDropdownItems returns, or the empty
\* list the catch block sets (both builds: dropdownItems = [])
RefreshFire(k, scraped) ==
  /\ FreeRefreshSlot(k)
  /\ Can("refresh")
  /\ NoRefresh \/ Can("overlap")
  /\ budget' = Spend(IF NoRefresh THEN budget ELSE Spend(budget, "overlap"), "refresh")
  /\ dropdownItems' = scraped
  /\ refresh' = [refresh EXCEPT ![k] =
                   [pc |-> IF scraped = <<>> THEN "done" ELSE "fetch",
                    items |-> scraped, idx |-> IF scraped = <<>> THEN 0 ELSE 1,
                    outcomes |-> <<>>]]
  /\ UNCHANGED <<variant, puppeteer, registration, persisted, apart, command, saveFailure, clock, cache, guildSettings, lastSentContent,
                 lastMinuteChecked, sched, passes, fullySent, primaryCount,
                 prev, pending, unpaid, minuteStat>>

\* the body of the try block of updateAllDropdownCache for one item:
\*   const content = await getContentForDropdownItem(page, item);
\*   await writeDropdownCache(item, content);
\* with catch {} around both
RefreshItem(c, item, res, content) ==
  IF res = "ok" THEN writeDropdownCache(c, item, content) ELSE c

\* a loop that a failing item ends
AfterItemStopsOnFailure(r, res, content) ==
  [r EXCEPT !.pc = IF res = "ok" /\ r.idx < Len(r.items) THEN "fetch" ELSE "done",
            !.idx = @ + 1,
            !.outcomes = Append(@, [res |-> res, content |-> content])]

\* the for loop goes on with the next item whatever the outcome
AfterItem(r, res, content) ==
  [r EXCEPT !.pc = IF r.idx < Len(r.items) THEN "fetch" ELSE "done",
            !.idx = @ + 1,
            !.outcomes = Append(@, [res |-> res, content |-> content])]

\* one item of a refresh run; the history forgets what it knew about the
\* pairs of a page whose cached content changed
ItemStep(k, res, content) ==
  LET r == refresh[k]
      item == r.items[r.idx]
      changed == readDropdownCache(cache', item) # readDropdownCache(cache, item)
      gone == IF changed THEN OfKeys(Guilds \X Labels, {CacheKey(item)}) ELSE {}
  IN /\ r.pc = "fetch"
     /\ cache' = RefreshItem(cache, item, res, content)
     /\ refresh' = [refresh EXCEPT ![k] = AfterItem(r, res, content)]
     /\ primaryCount' = [pr \in Guilds \X Labels |->
                           IF pr \in gone THEN 0 ELSE primaryCount[pr]]
     /\ passes' = [i \in Slots |-> Without(passes[i], gone)]
     /\ prev' = [prev EXCEPT !.exam = @ \ gone, !.msgs = @ \ gone, !.diff = @ \ gone]
     /\ pending' = pending \ gone
     /\ unpaid' = unpaid \ gone
     /\ UNCHANGED <<variant, puppeteer, registration, persisted, apart, command, saveFailure, clock, dropdownItems, guildSettings, lastSentContent,
                    lastMinuteChecked, sched, fullySent, minuteStat>>

FetchDone(k, content) ==
  /\ ItemStep(k, "ok", content)
  /\ UNCHANGED budget

\* getContentForDropdownItem throws
FetchFail(k) ==
  /\ Can("fail")
  /\ budget' = Spend(budget, "fail")
  /\ ItemStep(k, "fetchFail", Empty)

\* getContentForDropdownItem returns content, writeDropdownCache throws
WriteFail(k, content) ==
  /\ Can("fail")
  /\ budget' = Spend(budget, "fail")
  /\ ItemStep(k, "writeFail", content)

\* --------------------------------------------------------------- settings
\* the values a select_pages interaction can carry (min_values: 1)
PageSelections == {<<LabelA>>, <<LabelB>>, <<LabelA, LabelB>>, <<LabelB, LabelA>>}

CurrentSettings(g) ==
  IF HasSettings(guildSettings, g) THEN SettingsOf(guildSettings, g)
  ELSE DefaultSettings(g)

\* the pairs a guild with a usable channel starts to watch while they have no
\* ledger entry and the cache holds content for them
NewlyWatched(settings, values) ==
  {<<settings.id, p>> : p \in
     {q \in SeqToSet(values) \ SeqToSet(settings.pages) :
        /\ settings.channel \in LiveChannels
        /\ Entry(lastSentContent, settings.id, q) = NoEntry
        /\ readDropdownCache(cache, q) # Empty}}

\* a select_roles branch that makes a new roles object for the watched pages
MutatedDropsUnwatched(settings, customId, values) ==
  CASE customId = "select_pages" -> [settings EXCEPT !.pages = values]
    [] customId = "select_roles" ->
         [settings EXCEPT !.roles = [x \in SeqToSet(settings.pages) |-> values]]
    [] customId = "select_channel" -> [settings EXCEPT !.channel = values]

\* what a branch of the select menu handler does to the settings object:
\*   select_pages    settings.pages = new Set(interaction.values)
\*   select_roles    for (const page of settings.pages)
\*                     settings.roles[page] = new Set(interaction.values)
\*   select_channel  settings.channel = interaction.values[0]
Mutated(settings, customId, values) ==
  CASE customId = "select_pages" -> [settings EXCEPT !.pages = values]
    [] customId = "select_roles" ->
         [settings EXCEPT !.roles =
            [x \in (DOMAIN settings.roles) \cup SeqToSet(settings.pages) |->
               IF x \in SeqToSet(settings.pages) THEN values ELSE settings.roles[x]]]
    [] customId = "select_channel" -> [settings EXCEPT !.channel = values]

\* what is kept of a select interaction whose saveSettings failed: the reply
\* the user got (sent before saveSettings is called) and where the error
\* went: the catch of saveSettings swallows it (file), or saveSettings
\* rejects and the catch of the interaction handler logs it (mongo)
NoSaveFailure == [seen |-> FALSE, customId |-> "none", reply |-> "none", error |-> "none"]

SaveFailureOf(customId) ==
  [seen |-> TRUE, customId |-> customId, reply |-> "updated",
   error |-> IF variant = "mongo" THEN "thrown" ELSE "swallowed"]

\* the select menu handler: the settings object is changed, the reply sent,
\* the object stored in guildSettings and saveSettings awaited; saved tells
\* whether the store write of saveSettings succeeded
SelectMenu(g, customId, values, saved) ==
  LET settings == CurrentSettings(g)
      Kept(set) == IF customId = "select_roles" THEN set ELSE set \ OfGuild(set, g)
  IN /\ budget' = Spend(budget, "cfg")
     /\ guildSettings' = StoreSettings(guildSettings, Mutated(settings, customId, values))
     /\ pending' = Kept(pending) \cup (IF customId = "select_pages"
                                       THEN NewlyWatched(settings, values) ELSE {})
     /\ unpaid' = Kept(unpaid)
     /\ passes' = [i \in Slots |-> [passes[i] EXCEPT !.owed = Kept(@)]]
     /\ saveFailure' = IF saved THEN saveFailure ELSE SaveFailureOf(customId)
     /\ guildSettingsCol' = IF saved THEN guildSettings' ELSE guildSettingsCol
     /\ UNCHANGED <<variant, puppeteer, registration, lastSentContentCol, apart, command, clock, dropdownItems, cache, lastSentContent,
                    lastMinuteChecked, sched, refresh, fullySent,
                    primaryCount, prev, minuteStat>>

\* the select_pages branch of the select menu handler
SelectPages(g, values) ==
  /\ Can("cfg")
  /\ SelectMenu(g, "select_pages", values, TRUE)

\* the select_roles branch of the select menu handler
SelectRoles(g, values) ==
  /\ Can("cfg")
  /\ SelectMenu(g, "select_roles", values, TRUE)

\* the select_channel branch of the select menu handler
SelectChannel(g, ch) ==
  /\ Can("cfg")
  /\ SelectMenu(g, "select_channel", ch, TRUE)

\* the values a select menu interaction can carry
SelectValues(customId) ==
  CASE customId = "select_pages" -> PageSelections
    [] customId = "select_roles" -> SUBSET Roles
    [] customId = "select_channel" -> Channels

\* a select menu interaction during which the store write of saveSettings
\* fails (mongo: updateOne rejects, file: writeFile rejects)
SelectSaveFails(g, customId, values) ==
  /\ Can("fail")
  /\ SelectMenu(g, customId, values, FALSE)

\* ---------------------------------------------------------------- commands
\* the users of a guild: its owner, a member with the Administrator
\* permission and a member without it
Users == {"owner", "administrator", "member"}

\* isGuildAdminOrOwner for an interaction of user in guild g (Null outside a
\* guild): interaction.user.id === interaction.guild.ownerId, or
\* member.permissions.has('Administrator')
isGuildAdminOrOwner(g, user) ==
  /\ g # Null
  /\ (user = "owner" \/ user = "administrator")

\* The ClientReady handler: a command name is made for every item of
\* dropdownItems and the commands, with 'settings' and 'testping' after them,
\* are given to client.application.commands.set, whose failure is caught and
\* logged.
ClientReady ==
  LET made == RegisterFrom(dropdownItems, 1, <<>>, NoTable) IN
  /\ commands = <<>> /\ commandNameToDropdownItem = NoTable
  /\ commands' = made.commands
  /\ commandNameToDropdownItem' = made.table
  /\ UNCHANGED <<variant, puppeteer, persisted, apart, command, saveFailure, clock, dropdownItems, cache,
                 guildSettings, lastSentContent, lastMinuteChecked, sched, passes,
                 refresh, budget, fullySent, primaryCount, prev, pending, unpaid,
                 minuteStat>>

\* One run of the handler of an item command or of /testping.  pc is the
\* await the run is suspended in:
\*   "read"   await interaction.deferReply / await readDropdownCache(item)
\*   "fetch"  await getContentForDropdownItem(page, pageName) of /testping
\*   "send"   await editReply / followUp / channel.send of message j
\* name is interaction.commandName, kind the branch of the handler that
\* served it, reply the text of an early reply and out the messages sent so
\* far for the content.
IdleCommand ==
  [pc |-> "idle", kind |-> "none", name |-> <<>>, user |-> Null, reply |-> "none",
   guild |-> Null, pages |-> <<>>, pi |-> 0,
   item |-> <<>>, content |-> Empty, roleIds |-> {}, j |-> 0, out |-> <<>>]

CommandEnded == command.pc \in {"idle", "done"}

SettingsName == <<"s", "e", "t", "t", "i", "n", "g", "s">>

TestPingName == <<"t", "e", "s", "t", "p", "i", "n", "g">>

\* the branch of the InteractionCreate handler that serves a command name:
\*   commandName === 'settings', commandName === 'testping', then
\*   item = commandNameToDropdownItem[commandName]; if (!item) ...
Branch(commandName) ==
  IF commandName = SettingsName THEN "settings"
  ELSE IF commandName = TestPingName THEN "testping"
  ELSE IF commandName \in DOMAIN commandNameToDropdownItem THEN "item"
  ELSE "unknown"

\* content = 'Failed to fetch content for this page.'
FetchFailureText == [id |-> 3, len |-> 38]

\* the replies of an item command: editReply with the placeholder (no title)
\* or with title and chunks[0], then one followUp per further chunk
ItemReplyMessage(chunks, j) ==
  IF j = 0
  THEN [title |-> Len(chunks) # 0, mentions |-> {},
        body |-> IF Len(chunks) = 0 THEN Placeholder ELSE chunks[1]]
  ELSE [title |-> FALSE, mentions |-> {}, body |-> chunks[j + 1]]

CommandMessage(cmd) ==
  IF cmd.kind = "testping"
  THEN NotificationMessage(Chunks(cmd.content), cmd.roleIds, cmd.j)
  ELSE ItemReplyMessage(Chunks(cmd.content), cmd.j)

CommandFrame ==
  UNCHANGED <<variant, puppeteer, registration, persisted, apart, saveFailure, clock, dropdownItems, cache, guildSettings,
              lastSentContent, lastMinuteChecked, sched, passes, refresh,
              fullySent, primaryCount, prev, pending, unpaid, minuteStat>>

\* /settings arrives, or a command name the table does not hold: the handler
\* replies (with the settings menu, a refusal, or 'Unknown command or
\* dropdown item.') and returns.  The names that arrive are the names made
\* for the items, /settings and a name that no command has.
OtherCommand(g, user) ==
  /\ CommandEnded
  /\ \E commandName \in SeqToSet(commands) \cup {SettingsName, <<"b">>} :
       /\ Branch(commandName) \in {"settings", "unknown"}
       /\ command' = [IdleCommand EXCEPT
                        !.pc = "done", !.kind = Branch(commandName), !.name = commandName,
                        !.user = user, !.guild = g,
                        !.reply = IF Branch(commandName) = "unknown" THEN "unknown"
                                  ELSE IF isGuildAdminOrOwner(g, user) THEN "menu"
                                  ELSE "refused"]
  /\ UNCHANGED budget
  /\ CommandFrame

\* an item command arrives: commandNameToDropdownItem[commandName] is item
ItemCommand(item) ==
  /\ CommandEnded
  /\ \E commandName \in DOMAIN commandNameToDropdownItem :
       /\ Branch(commandName) = "item"
       /\ commandNameToDropdownItem[commandName] = item
       /\ command' = [IdleCommand EXCEPT !.pc = "read", !.kind = "item",
                                         !.name = commandName, !.item = item]
  /\ UNCHANGED budget
  /\ CommandFrame

\* await readDropdownCache(item) returns; the chunks are made and the first
\* reply is sent
ItemCommandRead ==
  /\ command.pc = "read"
  /\ command' = [command EXCEPT !.pc = "send", !.j = 0, !.out = <<>>,
                                !.content = readDropdownCache(cache, command.item)]
  /\ UNCHANGED budget
  /\ CommandFrame

\* the early reply of /testping, "none" if the handler goes on to its loop:
\*   if (!isGuildAdminOrOwner(interaction)) ...
\*   if (!settings || !settings.channel || !settings.pages || settings.pages.size === 0) ...
\*   if (!channel || channel.type !== 0) ...
TestPingRefusal(g, user) ==
  IF ~isGuildAdminOrOwner(g, user) THEN "refused"
  ELSE IF \/ ~HasSettings(guildSettings, g)
          \/ SettingsOf(guildSettings, g).channel = Null
          \/ SettingsOf(guildSettings, g).pages = <<>> THEN "unconfigured"
  ELSE IF SettingsOf(guildSettings, g).channel \notin LiveChannels THEN "nochannel"
  ELSE "none"

\* /testping arrives from user in guild g: an early reply, or the loop over
\* the pages up to its first await
TestPing(g, user) ==
  /\ CommandEnded
  /\ command' =
       IF TestPingRefusal(g, user) # "none"
       THEN [IdleCommand EXCEPT !.pc = "done", !.kind = "testping", !.name = TestPingName,
                                !.user = user, !.guild = g,
                                !.reply = TestPingRefusal(g, user)]
       ELSE [IdleCommand EXCEPT !.pc = "fetch", !.kind = "testping", !.name = TestPingName,
                                !.user = user, !.guild = g,
                                !.pages = SettingsOf(guildSettings, g).pages,
                                !.pi = 1]
  /\ UNCHANGED budget
  /\ CommandFrame

\* the content /testping goes on with for the page at pi
TestPingContent(content) ==
  [command EXCEPT !.pc = "send", !.j = 0, !.out = <<>>, !.content = content,
                  !.item = command.pages[command.pi],
                  !.roleIds = RolesOf(SettingsOf(guildSettings, command.guild),
                                      command.pages[command.pi])]

\* await getContentForDropdownItem(page, pageName) returns
TestPingFetched(content) ==
  /\ command.pc = "fetch"
  /\ command' = TestPingContent(content)
  /\ UNCHANGED budget
  /\ CommandFrame

\* getContentForDropdownItem throws: the catch block sets the failure text
TestPingFetchFailed ==
  /\ command.pc = "fetch"
  /\ Can("fail")
  /\ budget' = Spend(budget, "fail")
  /\ command' = TestPingContent(FetchFailureText)
  /\ CommandFrame

\* the send of message j returns: the next chunk, the next page of /testping,
\* or the end of the handler
CommandSent ==
  LET told == [command EXCEPT !.out = Append(@, CommandMessage(command))] IN
  /\ command.pc = "send"
  /\ command' =
       IF command.j + 1 < MessageCount(command.content)
       THEN [told EXCEPT !.j = @ + 1]
       ELSE IF command.kind = "testping" /\ command.pi < Len(command.pages)
            THEN [told EXCEPT !.pc = "fetch", !.pi = @ + 1]
            ELSE [told EXCEPT !.pc = "done"]
  /\ UNCHANGED budget
  /\ CommandFrame

\* ------------------------------------------------- select handler, stepwise
\* The select menu handler with its awaits.  A run takes the guild's settings
\* object from guildSettings, or a new one when the guild has none, changes
\* it in place and awaits interaction.reply; then it stores the object and
\* awaits saveSettings.  held is the object of a guild that a run refers to
\* when guildSettings does not hold that object: the new object before it is
\* stored, or an object that another run's store has replaced meanwhile.
\* docs is what the write a run awaits was called with; keys are the guilds
\* the loop of saveSettings has still to write (mongo).  fresh tells that
\* the run made a new object because the guild had no record.  again
\* (history) holds the pages a select_pages run added to the watch set while
\* the guild's ledger entry for them was the content the cache held, and
\* since the number of passes that could still start when the run arrived.
SelectSlots == 1..2

IdleSelect ==
  [pc |-> "idle", guild |-> Null, user |-> Null, customId |-> "none",
   reply |-> "none", error |-> "none", held |-> EmptyMap, keys |-> <<>>,
   docs |-> <<>>, fresh |-> FALSE, again |-> {}, since |-> 0]

\* the object of guild g as run r sees it
ObjectOf(r, g) ==
  IF g \in DOMAIN r.held THEN r.held[g] ELSE SettingsOf(guildSettings, g)

\* whether run r refers to the object guildSettings holds for g
RefersToStored(r, g) ==
  /\ g \notin DOMAIN r.held
  /\ \/ r.pc = "reply" /\ r.guild = g
     \/ r.pc = "save" /\ g \in SeqToSet(r.keys)

\* run r after guildSettings[g] was set to another object: it keeps the one
\* it refers to
KeepsObject(r, g) ==
  IF RefersToStored(r, g)
  THEN [r EXCEPT !.held = Put(@, g, SettingsOf(guildSettings, g))]
  ELSE r

\* a select menu interaction arrives: permission check, in-place change of
\* the settings object, interaction.reply called
SelectArrives(k, g, user, customId, values) ==
  LET stored == HasSettings(guildSettings, g)
      settings == Mutated(CurrentSettings(g), customId, values)
      run == [IdleSelect EXCEPT !.guild = g, !.user = user, !.customId = customId,
                                !.since = budget.pass]
      again == IF customId = "select_pages"
               THEN {p \in SeqToSet(values) \ SeqToSet(CurrentSettings(g).pages) :
                       /\ readDropdownCache(cache, p) # Empty
                       /\ Entry(lastSentContent, g, p) = readDropdownCache(cache, p)}
               ELSE {}
  IN /\ select[k].pc \in {"idle", "done"}
     /\ Can("cfg")
     /\ budget' = Spend(budget, "cfg")
     /\ IF isGuildAdminOrOwner(g, user)
        THEN /\ guildSettings' =
                  IF stored THEN StoreSettings(guildSettings, settings)
                  ELSE guildSettings
             /\ select' = [select EXCEPT ![k] =
                  [run EXCEPT !.pc = "reply", !.fresh = ~stored, !.again = again,
                              !.held = IF stored THEN EmptyMap
                                       ELSE Put(EmptyMap, g, settings)]]
        ELSE /\ select' = [select EXCEPT ![k] =
                  [run EXCEPT !.pc = "done", !.reply = "refused"]]
             /\ UNCHANGED guildSettings
     /\ UNCHANGED <<variant, puppeteer, registration, persisted, startup, millis, command,
                    saveFailure, clock, dropdownItems, cache, lastSentContent,
                    lastMinuteChecked, sched, passes, refresh, fullySent,
                    primaryCount, prev, pending, unpaid, minuteStat>>

\* the run of saveSettings at its first await, called with registry gs:
\* file: the whole registry serialised, one writeFile; mongo: the loop over
\* Object.entries(guildSettings), the first updateOne called
SaveSettingsCalled(r, gs) ==
  IF variant = "file"
  THEN [r EXCEPT !.pc = "save", !.held = EmptyMap, !.keys = <<>>, !.docs = gs]
  ELSE [r EXCEPT !.pc = "save", !.held = EmptyMap, !.keys = Tail(EntriesOf(gs)),
                 !.docs = <<gs[1]>>]

\* await interaction.reply returns: the user has the success reply;
\* guildSettings[guildId] = settings; saveSettings is called
SelectReplied(k) ==
  LET r == select[k]
      g == r.guild
      settings == ObjectOf(r, g)
      replaces == g \in DOMAIN r.held
      gs == StoreSettings(guildSettings, settings)
  IN /\ r.pc = "reply"
     /\ guildSettings' = gs
     /\ select' = [j \in SelectSlots |->
          IF j = k THEN SaveSettingsCalled([r EXCEPT !.reply = "updated"], gs)
          ELSE IF replaces /\ HasSettings(guildSettings, g)
               THEN KeepsObject(select[j], g)
               ELSE select[j]]
     /\ UNCHANGED <<variant, puppeteer, registration, persisted, startup, millis, command,
                    saveFailure, clock, dropdownItems, cache, lastSentContent,
                    lastMinuteChecked, sched, passes, refresh, budget, fullySent,
                    primaryCount, prev, pending, unpaid, minuteStat>>

\* await interaction.reply rejects: the catch of the interaction handler logs
\* the error; the object is not stored and saveSettings is not called
SelectReplyFails(k) ==
  LET r == select[k] IN
  /\ r.pc = "reply"
  /\ Can("fail")
  /\ budget' = Spend(budget, "fail")
  /\ select' = [select EXCEPT ![k] =
       [r EXCEPT !.pc = "done", !.error = "reply", !.held = EmptyMap]]
  /\ UNCHANGED <<variant, puppeteer, registration, persisted, startup, millis, command,
                 saveFailure, clock, dropdownItems, cache, guildSettings,
                 lastSentContent, lastMinuteChecked, sched, passes, refresh,
                 fullySent, primaryCount, prev, pending, unpaid, minuteStat>>

\* the settings store after a write called with docs
SettingsWritten(col, docs) ==
  IF variant = "file" THEN docs ELSE StoreSettings(col, docs[1])

\* the write that saveSettings awaits succeeds: saveSettings returns (file,
\* or mongo after the last guild), or calls updateOne for the next guild
SaveSettingsDone(k) ==
  LET r == select[k] IN
  /\ r.pc = "save"
  /\ guildSettingsCol' = SettingsWritten(guildSettingsCol, r.docs)
  /\ select' = [select EXCEPT ![k] =
       IF r.keys = <<>>
       THEN [r EXCEPT !.pc = "done", !.held = EmptyMap, !.docs = <<>>]
       ELSE [r EXCEPT !.keys = Tail(@), !.docs = <<ObjectOf(r, Head(r.keys))>>,
                      !.held = [g \in (DOMAIN @) \ {Head(r.keys)} |-> @[g]]]]
  /\ UNCHANGED <<variant, puppeteer, registration, lastSentContentCol, startup, millis,
                 command, saveFailure, clock, dropdownItems, cache, guildSettings,
                 lastSentContent, lastMinuteChecked, sched, passes, refresh,
                 budget, fullySent, primaryCount, prev, pending, unpaid, minuteStat>>

\* the write that saveSettings awaits fails: saveSettings swallows the error
\* (file), or rejects and the catch of the interaction handler logs it (mongo)
SaveSettingsFails(k) ==
  LET r == select[k] IN
  /\ r.pc = "save"
  /\ Can("fail")
  /\ budget' = Spend(budget, "fail")
  /\ select' = [select EXCEPT ![k] =
       [r EXCEPT !.pc = "done", !.held = EmptyMap, !.keys = <<>>, !.docs = <<>>,
                 !.error = IF variant = "mongo" THEN "thrown" ELSE "swallowed"]]
  /\ UNCHANGED <<variant, puppeteer, registration, persisted, startup, millis, command,
                 saveFailure, clock, dropdownItems, cache, guildSettings,
                 lastSentContent, lastMinuteChecked, sched, passes, refresh,
                 fullySent, primaryCount, prev, pending, unpaid, minuteStat>>

\* ---------------------------------------------------------------- startBot
\* The statements of startBot in their order.  needs is the environment
\* variable a statement throws without; does is what the statement starts,
\* opens or registers; fails tells where the rejection of its await goes:
\* "throws" rejects startBot, "caught" is logged (or silent) and startBot
\* goes on, "never" is a statement that awaits nothing.
Step(name, needs, does, fails) ==
  [name |-> name, needs |-> needs, does |-> does, fails |-> fails]

\* an order in which the token is tested after the browser was launched
StartStepsTokenLate ==
  <<Step("client", "none", "none", "never"),
    Step("browser", "none", "browser", "caught"),
    Step("token", "DISCORD_TOKEN", "none", "never"),
    Step("login", "none", "login", "throws")>>

StartSteps ==
  IF variant = "mongo"
  THEN <<Step("token", "DISCORD_TOKEN", "none", "never"),
         Step("client", "none", "none", "never"),
         Step("uri", "MONGODB_URI", "none", "never"),
         Step("connect", "none", "store", "throws"),
         Step("settings", "none", "store", "throws"),
         Step("ledger", "none", "store", "throws"),
         Step("browser", "none", "browser", "caught"),
         Step("refreshTimer", "none", "timer", "never"),
         Step("handlers", "none", "handler", "never"),
         Step("scheduler", "none", "timer", "never"),
         Step("login", "none", "login", "throws")>>
  ELSE <<Step("token", "DISCORD_TOKEN", "none", "never"),
         Step("client", "none", "none", "never"),
         Step("browser", "none", "browser", "caught"),
         Step("refreshTimer", "none", "timer", "never"),
         Step("settings", "none", "store", "caught"),
         Step("handlers", "none", "handler", "never"),
         Step("passTimer", "none", "timer", "never"),
         Step("login", "none", "login", "throws")>>

\* startBot has returned the client: every statement was run
Started ==
  [pc |-> "returned", at |-> Len(StartSteps) + 1, env |-> {"DISCORD_TOKEN", "MONGODB_URI"},
   did |-> {StartSteps[i].does : i \in 1..Len(StartSteps)} \ {"none"},
   error |-> "none", module |-> TRUE]

\* startBot is called in a process with the environment variables env
Called(env) ==
  [pc |-> "running", at |-> 1, env |-> env, did |-> {}, error |-> "none",
   module |-> FALSE]

\* what a statement of startBot that succeeded leaves in memory
Loaded(step) ==
  /\ guildSettings' = IF step.name = "settings" THEN guildSettingsCol ELSE guildSettings
  /\ lastSentContent' = IF step.name = "ledger" THEN lastSentContentCol ELSE lastSentContent

StartFrame ==
  UNCHANGED <<variant, puppeteer, registration, persisted, select, millis, command,
              saveFailure, clock, dropdownItems, cache, lastMinuteChecked, sched,
              passes, refresh, budget, fullySent, primaryCount, prev, pending,
              unpaid, minuteStat>>

\* the next statement of startBot runs and, if it awaits, its await returns;
\* after the last statement startBot returns the client
StartBotStep ==
  LET step == StartSteps[startup.at] IN
  /\ startup.pc = "running"
  /\ startup.at <= Len(StartSteps)
  /\ step.needs \in startup.env \cup {"none"}
  /\ startup' = [startup EXCEPT
       !.at = @ + 1,
       !.did = IF step.does = "none" THEN @ ELSE @ \cup {step.does},
       !.pc = IF startup.at = Len(StartSteps) THEN "returned" ELSE @]
  /\ Loaded(step)
  /\ StartFrame

\* if (!token) throw ..., if (!mongoUri) throw ...
StartBotConfigMissing ==
  LET step == StartSteps[startup.at] IN
  /\ startup.pc = "running"
  /\ startup.at <= Len(StartSteps)
  /\ step.needs \notin startup.env \cup {"none"}
  /\ startup' = [startup EXCEPT !.pc = "thrown", !.error = step.needs]
  /\ UNCHANGED <<guildSettings, lastSentContent>>
  /\ StartFrame

\* the await of a statement rejects and nothing in startBot catches it (the
\* catch around client.login rethrows)
StartBotRejects ==
  LET step == StartSteps[startup.at] IN
  /\ startup.pc = "running"
  /\ startup.at <= Len(StartSteps)
  /\ step.needs = "none" /\ step.fails = "throws"
  /\ startup' = [startup EXCEPT !.pc = "thrown", !.error = step.name]
  /\ UNCHANGED <<guildSettings, lastSentContent>>
  /\ StartFrame

\* the await of a statement rejects inside a try whose catch goes on
StartBotCatches ==
  LET step == StartSteps[startup.at] IN
  /\ startup.pc = "running"
  /\ startup.at <= Len(StartSteps)
  /\ step.needs = "none" /\ step.fails = "caught"
  /\ startup' = [startup EXCEPT !.at = @ + 1]
  /\ UNCHANGED <<guildSettings, lastSentContent>>
  /\ StartFrame

\* src/bot.js reads lastSentContent.json in the module body, outside
\* startBot: before startBot is called by an importer, or after the call of
\* startBot in the module body reached its first await or threw
ModuleLoadsLedger ==
  /\ variant = "file"
  /\ ~startup.module
  /\ startup' = [startup EXCEPT !.module = TRUE]
  /\ lastSentContent' = lastSentContentCol
  /\ UNCHANGED guildSettings
  /\ StartFrame

\* ------------------------------------------------------------------ clock
NextSample(m) ==
  LET i == CHOOSE x \in 1..Len(SampleMinutes) : SampleMinutes[x] = m
  IN SampleMinutes[(i % Len(SampleMinutes)) + 1]

\* evals: evaluations of the gate in the current minute (2 for more), fires:
\* the passes they started, allowed: what the last of them computed
NoEvaluation == [evals |-> 0, fires |-> 0, allowed |-> FALSE]

\* wall-clock time passes (only the mongo build reads the clock)
Tick ==
  /\ variant = "mongo"
  /\ clock' = NextSample(clock)
  /\ minuteStat' = NoEvaluation
  /\ UNCHANGED <<variant, puppeteer, registration, persisted, apart, command, saveFailure, dropdownItems, cache, guildSettings, lastSentContent,
                 lastMinuteChecked, sched, passes, refresh, budget, fullySent,
                 primaryCount, prev, pending, unpaid>>

\* one minute of wall-clock time passes
MinuteTick ==
  /\ variant = "mongo"
  /\ clock' = (clock + 1) % (24 * 60)
  /\ minuteStat' = NoEvaluation
  /\ UNCHANGED <<variant, puppeteer, registration, persisted, apart, command, saveFailure, dropdownItems, cache, guildSettings, lastSentContent,
                 lastMinuteChecked, sched, passes, refresh, budget, fullySent,
                 primaryCount, prev, pending, unpaid>>

\* ------------------------------------------------------------ timed clock
\* The wall clock with its milliseconds, for the timer of the scheduler.
DayMillis == 24 * 60 * 60 * 1000

\* d milliseconds pass
Elapse(d) ==
  LET wall == (clock * 60 * 1000 + millis + d) % DayMillis IN
  /\ clock' = wall \div (60 * 1000)
  /\ millis' = wall % (60 * 1000)
  /\ minuteStat' = IF d >= 60 * 1000 \/ wall \div (60 * 1000) # clock
                    THEN NoEvaluation ELSE minuteStat

\* how late the timer's callback runs: on time, a little late, and after a
\* night in which the process was suspended
Lateness == {0, 250, DayMillis - 60 * 1000}

\* how long the awaits of a pass take: under a minute, over a minute, and a
\* call that hangs for hours
Durations == {30 * 1000, 90 * 1000, 6 * 60 * 60 * 1000 + 30 * 60 * 1000}

\* the time until the timer is due passes, and late more before the event
\* loop runs the callback
TimerWait(late) ==
  /\ variant = "mongo"
  /\ sched.st = "timer" /\ sched.left > 0
  /\ late > 0 => Can("late")
  /\ budget' = IF late > 0 THEN Spend(budget, "late") ELSE budget
  /\ Elapse(sched.left + late)
  /\ sched' = [sched EXCEPT !.left = 0]
  /\ UNCHANGED <<variant, puppeteer, registration, persisted, select, startup, command,
                 saveFailure, dropdownItems, cache, guildSettings, lastSentContent,
                 lastMinuteChecked, passes, refresh, fullySent, primaryCount,
                 prev, pending, unpaid>>

\* the timer's callback runs when the timer is due
TimerFires ==
  /\ sched.left = 0
  /\ SchedulerFire

\* time passes while a pass is suspended in an await
AwaitTakes(d) ==
  /\ variant = "mongo"
  /\ sched.st = "running"
  /\ Can("await")
  /\ budget' = Spend(budget, "await")
  /\ Elapse(d)
  /\ UNCHANGED <<variant, puppeteer, registration, persisted, select, startup, command,
                 saveFailure, dropdownItems, cache, guildSettings, lastSentContent,
                 lastMinuteChecked, sched, passes, refresh, fullySent,
                 primaryCount, prev, pending, unpaid>>

\* --------------------------------------------------------- the shared page
\* startBot keeps one browser and one page.  getContentForDropdownItem
\* (src/scraper.js) works on the page it is given in steps, each an await:
\*   "wait"  waitForSelector of the dropdown, then open it and click the option
\*   "next"  waitForSelector of the next button, then click it
\*   "read"  waitForSelector of the back button, then read document.body
\*   "back"  click the back button, wait for the dropdown, return the content
\* The page is on the form screen with an option selected (or none), or on
\* the content screen of the option that was selected when next was
\* clicked.  The callers are updateAllDropdownCache ("refresh": at startup
\* and from the refresh timer) and the /testping handler ("testping"); runs
\* holds for each the items it loops over, its position and the item whose
\* content it has read.  wrote and sent (history) pair the item a caller
\* asked for with the item whose content it got.
Fetchers == {"refresh", "testping"}

NoItem == <<>>

IdleFetch == [pc |-> "idle", items |-> <<>>, idx |-> 0, got |-> NoItem]

NoPage ==
  [phase |-> "boot", launched |-> FALSE, selected |-> NoItem, screen |-> "form",
   shows |-> NoItem, runs |-> [w \in Fetchers |-> IdleFetch],
   wrote |-> {}, sent |-> {}]

\* the content the form shows for an item
FormContent(item) == IF item = LabelA THEN ContentA ELSE ContentB

\* a caller's loop reaches its first getContentForDropdownItem, if any
FetchLoop(items) ==
  IF items = <<>> THEN IdleFetch
  ELSE [IdleFetch EXCEPT !.pc = "wait", !.items = items, !.idx = 1]

FetchItem(w) == browserPage.runs[w].items[browserPage.runs[w].idx]

\* the loop goes on after the item at idx; the startup code goes on to log
\* in and set the timers when its updateAllDropdownCache has returned
FetchAdvance(bp, w) ==
  LET r == bp.runs[w] IN
  IF r.idx < Len(r.items)
  THEN [bp EXCEPT !.runs[w] = [r EXCEPT !.pc = "wait", !.idx = @ + 1, !.got = NoItem]]
  ELSE [bp EXCEPT !.runs[w] = IdleFetch, !.phase = "up"]

PageFrame ==
  UNCHANGED <<variant, registration, persisted, apart, scrape, command,
              saveFailure, clock, guildSettings, lastSentContent,
              lastMinuteChecked, sched, passes, refresh, budget, fullySent,
              primaryCount, prev, pending, unpaid, minuteStat>>

\* startBot: try { await launchBrowserAndPage(); await updateAllDropdownCache() }
\* with a launch that succeeds (scraped is what getDropdownItems returns) or
\* rejects (the catch logs it, browser and page stay null)
StartupLaunch(ok, scraped) ==
  /\ browserPage.phase = "boot"
  /\ IF ok
     THEN /\ dropdownItems' = scraped
          /\ browserPage' = [browserPage EXCEPT
                 !.launched = TRUE,
                 !.phase = IF scraped = <<>> THEN "up" ELSE "caching",
                 !.runs["refresh"] = FetchLoop(scraped)]
     ELSE /\ browserPage' = [browserPage EXCEPT !.phase = "up"]
          /\ UNCHANGED dropdownItems
  /\ UNCHANGED cache
  /\ PageFrame

\* the refresh timer fires: refreshPageAndUpdateCache launches the browser
\* if there is none and returns, or reloads the page, scrapes the items and
\* calls updateAllDropdownCache
PageRefreshFire(scraped) ==
  /\ browserPage.phase = "up"
  /\ browserPage.runs["refresh"].pc = "idle"
  /\ dropdownItems' = scraped
  /\ browserPage' =
       IF browserPage.launched
       THEN [browserPage EXCEPT !.selected = NoItem, !.screen = "form",
                                !.shows = NoItem,
                                !.runs["refresh"] = FetchLoop(scraped)]
       ELSE [browserPage EXCEPT !.launched = TRUE]
  /\ UNCHANGED cache
  /\ PageFrame

\* /testping by a user the handler admits, in a guild with a channel and a
\* watch set: the loop over settings.pages reaches its first fetch
PageTestPing(g, user) ==
  /\ browserPage.phase = "up"
  /\ browserPage.runs["testping"].pc = "idle"
  /\ isGuildAdminOrOwner(g, user)
  /\ HasSettings(guildSettings, g)
  /\ Enterable(guildSettings, g)
  /\ browserPage' = [browserPage EXCEPT
        !.runs["testping"] = FetchLoop(SettingsOf(guildSettings, g).pages)]
  /\ UNCHANGED <<cache, dropdownItems>>
  /\ PageFrame

\* the dropdown is there: it is opened and the option of the item clicked
FetchOpens(w) ==
  /\ browserPage.runs[w].pc = "wait"
  /\ browserPage.launched
  /\ browserPage.screen = "form"
  /\ FetchItem(w) \in Labels
  /\ browserPage' = [browserPage EXCEPT !.selected = FetchItem(w),
                                        !.runs[w].pc = "next"]
  /\ UNCHANGED <<cache, dropdownItems>>
  /\ PageFrame

\* the next button is there and is clicked: the form goes to the content of
\* the option that is selected now (it stays where it is if none is)
FetchNext(w) ==
  /\ browserPage.runs[w].pc = "next"
  /\ browserPage.screen = "form"
  /\ browserPage' =
       IF browserPage.selected = NoItem
       THEN [browserPage EXCEPT !.runs[w].pc = "read"]
       ELSE [browserPage EXCEPT !.screen = "content", !.shows = browserPage.selected,
                                !.runs[w].pc = "read"]
  /\ UNCHANGED <<cache, dropdownItems>>
  /\ PageFrame

\* the back button is there: document.body.innerText is read
FetchReads(w) ==
  /\ browserPage.runs[w].pc = "read"
  /\ browserPage.screen = "content"
  /\ browserPage' = [browserPage EXCEPT !.runs[w].pc = "back",
                                        !.runs[w].got = browserPage.shows]
  /\ UNCHANGED <<cache, dropdownItems>>
  /\ PageFrame

\* the back button is clicked and the content returned: the refresh writes
\* it to the cache under the item it asked for, /testping sends it
FetchBack(w) ==
  LET r == browserPage.runs[w]
      back == [browserPage EXCEPT !.screen = "form", !.shows = NoItem]
  IN /\ r.pc = "back"
     /\ browserPage.screen = "content"
     /\ IF w = "refresh"
        THEN /\ cache' = writeDropdownCache(cache, FetchItem(w), FormContent(r.got))
             /\ browserPage' = FetchAdvance(
                   [back EXCEPT !.wrote = @ \cup {<<FetchItem(w), r.got>>}], w)
        ELSE /\ UNCHANGED cache
             /\ browserPage' = FetchAdvance(
                   [back EXCEPT !.sent = @ \cup {<<FetchItem(w), r.got>>}], w)
     /\ UNCHANGED dropdownItems
     /\ PageFrame

\* what the step of a fetch waits for is not on the page (or there is no
\* page, or no such option): the wait times out and the fetch throws; the
\* refresh skips the item (catch {}), /testping sends a failure text
FetchThrows(w) ==
  LET r == browserPage.runs[w] IN
  /\ \/ r.pc = "wait" /\ (\/ ~browserPage.launched
                           \/ browserPage.screen # "form"
                           \/ FetchItem(w) \notin Labels)
     \/ r.pc = "next" /\ browserPage.screen # "form"
     \/ r.pc \in {"read", "back"} /\ browserPage.screen # "content"
  /\ browserPage' = FetchAdvance(browserPage, w)
  /\ UNCHANGED <<cache, dropdownItems>>
  /\ PageFrame

\* ---------------------------------------------- scraper: all items at once
\* A call of getAllDropdownItemsAndContent (src/scraper.js): it launches a
\* browser of its own, opens a page, and inside one try block loads the
\* form, lists the items and fetches them one by one; the catch of the loop
\* body records a failed fetch, the catch of the try block closes the
\* browser and throws again.  pc is the await the call is suspended in,
\* browser the state of the browser it launched, closeFailed tells that a
\* call of browser.close rejected.
NullContent == [id |-> 0 - 1, len |-> 0]

IdleScrape ==
  [pc |-> "idle", browser |-> "none", items |-> <<>>, idx |-> 0, results |-> <<>>,
   outcome |-> "none", closeFailed |-> FALSE]

ScrapeFrame ==
  UNCHANGED <<variant, registration, persisted, apart, browserPage, command,
              saveFailure, clock, dropdownItems, cache, guildSettings,
              lastSentContent, lastMinuteChecked, sched, passes, refresh, budget,
              fullySent, primaryCount, prev, pending, unpaid, minuteStat>>

\* the call: await puppeteer.launch(...)
ScrapeCalled ==
  /\ scrape.pc = "idle"
  /\ scrape' = [scrape EXCEPT !.pc = "launch"]
  /\ ScrapeFrame

\* puppeteer.launch returns: await browser.newPage()
ScrapeLaunched ==
  /\ scrape.pc = "launch"
  /\ scrape' = [scrape EXCEPT !.pc = "newPage", !.browser = "open"]
  /\ ScrapeFrame

\* puppeteer.launch rejects: there is no browser, the call throws
ScrapeLaunchFails ==
  /\ scrape.pc = "launch"
  /\ scrape' = [scrape EXCEPT !.pc = "done", !.outcome = "thrown"]
  /\ ScrapeFrame

\* browser.newPage returns: the try block is entered, await page.goto(...)
ScrapeNewPage ==
  /\ scrape.pc = "newPage"
  /\ scrape' = [scrape EXCEPT !.pc = "goto"]
  /\ ScrapeFrame

\* browser.newPage rejects, before the try block: the call throws
ScrapeNewPageFails ==
  /\ scrape.pc = "newPage"
  /\ scrape' = [scrape EXCEPT !.pc = "done", !.outcome = "thrown"]
  /\ ScrapeFrame

\* page.goto returns: await getDropdownItems(page)
ScrapeGoto ==
  /\ scrape.pc = "goto"
  /\ scrape' = [scrape EXCEPT !.pc = "items"]
  /\ ScrapeFrame

\* the position after the item at idx: the next fetch, or browser.close()
ScrapeAdvance(r) ==
  IF r.idx < Len(r.items) THEN [r EXCEPT !.idx = @ + 1, !.pc = "fetch"]
  ELSE [r EXCEPT !.idx = 0, !.pc = "close"]

\* getDropdownItems returns the list: the first getContentForDropdownItem
ScrapeItems(items) ==
  /\ scrape.pc = "items"
  /\ scrape' = ScrapeAdvance([scrape EXCEPT !.items = items])
  /\ ScrapeFrame

\* page.goto or getDropdownItems rejects: the catch of the try block calls
\* browser.close()
ScrapeTryFails ==
  /\ scrape.pc \in {"goto", "items"}
  /\ scrape' = [scrape EXCEPT !.pc = "catch"]
  /\ ScrapeFrame

\* getContentForDropdownItem returns: results.push({ item, content })
ScrapeFetched(content) ==
  /\ scrape.pc = "fetch"
  /\ scrape' = ScrapeAdvance([scrape EXCEPT !.results =
        Append(@, [item |-> scrape.items[scrape.idx], content |-> content,
                   error |-> "none"])])
  /\ ScrapeFrame

\* getContentForDropdownItem throws:
\* results.push({ item, content: null, error: err.message })
ScrapeFetchFails(message) ==
  /\ scrape.pc = "fetch"
  /\ scrape' = ScrapeAdvance([scrape EXCEPT !.results =
        Append(@, [item |-> scrape.items[scrape.idx], content |-> NullContent,
                   error |-> message])])
  /\ ScrapeFrame

\* browser.close returns: return results (try block), throw err (catch)
ScrapeClosed ==
  /\ scrape.pc \in {"close", "catch"}
  /\ scrape' = [scrape EXCEPT !.pc = "done", !.browser = "closed",
                              !.outcome = IF scrape.pc = "close" THEN "returned"
                                          ELSE "thrown"]
  /\ ScrapeFrame

\* browser.close rejects: in the try block the catch calls it again, in the
\* catch the rejection leaves the call
ScrapeCloseFails ==
  /\ scrape.pc \in {"close", "catch"}
  /\ scrape' = IF scrape.pc = "close"
               THEN [scrape EXCEPT !.pc = "catch", !.closeFailed = TRUE]
               ELSE [scrape EXCEPT !.pc = "done", !.outcome = "thrown",
                                   !.closeFailed = TRUE]
  /\ ScrapeFrame

\* ------------------------------------------------------------------- init
\* The state when startBot has set its timers: the stores were read (cache
\* and settings hold what an earlier run left, or nothing) and the startup
\* scrape has filled dropdownItems.
InitStores ==
  {[cache |-> EmptyMap, settings |-> <<>>],
   [cache |-> [x \in {CacheKey(LabelA), CacheKey(LabelB)} |->
                 IF x = CacheKey(LabelA) THEN ContentA ELSE ContentB],
    settings |-> <<[id |-> "g1", pages |-> <<LabelA, LabelB>>,
                    roles |-> [x \in {LabelA, LabelB} |-> {"r1"}], channel |-> "c1"],
                   [id |-> "g2", pages |-> <<LabelB>>,
                    roles |-> [x \in {LabelA} |-> {"r2"}], channel |-> "c1"]>>]}

\* made is what the ClientReady handler has set: nothing before the client
\* is ready
\* stored is what the two stores hold, call the state of the call of startBot
BootState(b, minute, c, gs, items, made, stored, call) ==
  /\ variant \in Variants
  /\ clock = minute
  /\ dropdownItems = items
  /\ cache = c
  /\ guildSettings = gs
  /\ lastSentContent = [g \in {} |-> EmptyMap]
  /\ lastMinuteChecked = NoMinute
  /\ sched = [Armed(0) EXCEPT !.st = IF variant = "mongo" THEN "timer" ELSE "off"]
  /\ passes = [i \in Slots |-> IdlePass]
  /\ refresh = [i \in Slots |-> IdleRefresh]
  /\ budget = b
  /\ fullySent = {}
  /\ primaryCount = [pr \in Guilds \X Labels |-> 0]
  /\ prev = NoSummary
  /\ pending = {}
  /\ unpaid = {}
  /\ minuteStat = NoEvaluation
  /\ command = IdleCommand
  /\ saveFailure = NoSaveFailure
  /\ commands = made.commands
  /\ commandNameToDropdownItem = made.table
  /\ guildSettingsCol = stored.settings
  /\ lastSentContentCol = stored.ledger
  /\ select = [k \in SelectSlots |-> IdleSelect]
  /\ startup = call
  /\ millis = 0
  /\ browserPage = NoPage
  /\ scrape = IdleScrape

\* the bot with the items a and B scraped and their commands registered
BootWith(b, minute, c, gs) ==
  BootState(b, minute, c, gs, <<LabelA, LabelB>>,
            RegisterFrom(<<LabelA, LabelB>>, 1, <<>>, NoTable),
            [settings |-> gs, ledger |-> [g \in {} |-> EmptyMap]], Started)

Boot(b, minute) ==
  /\ variant \in Variants
  /\ \E st \in InitStores : BootWith(b, minute, st.cache, st.settings)

InitWith(b) == Boot(b, SampleMinutes[1])

Init ==
  InitWith([events |-> MaxEvents, pass |-> MaxPass, overlap |-> MaxOverlap])

Next ==
  \/ SchedulerFire
  \/ \E k \in Slots : IntervalFire(k)
  \/ \E k \in Slots : ReadDone(k)
  \/ \E k \in Slots : ReadFail(k)
  \/ \E k \in Slots : SendDone(k)
  \/ \E k \in Slots : SendFail(k)
  \/ \E k \in Slots : SaveDone(k)
  \/ \E k \in Slots : SaveFail(k)
  \/ \E k \in Slots, scraped \in ItemLists \cup {<<>>} : RefreshFire(k, scraped)
  \/ \E k \in Slots, content \in Contents : FetchDone(k, content)
  \/ \E k \in Slots : FetchFail(k)
  \/ \E k \in Slots, content \in Contents : WriteFail(k, content)
  \/ \E g \in Guilds, values \in PageSelections : SelectPages(g, values)
  \/ \E g \in Guilds, ch \in Channels : SelectChannel(g, ch)
  \/ Tick

Spec == Init /\ [][Next]_vars

\* The scheduler alone, evaluated at the minutes of a day: no guild is
\* configured, so that a pass it starts returns at once.
MatcherInit ==
  /\ Boot([events |-> 0, pass |-> Unlimited, overlap |-> 0], 0)
  /\ variant = "mongo"
  /\ guildSettings = <<>>

MatcherNext ==
  \/ SchedulerFire
  \/ MinuteTick

SpecMatcher == MatcherInit /\ [][MatcherNext]_vars

\* The passes and their triggers with nothing else going on but rejected
\* sends: the cache and the settings stay as they are, the timers keep
\* firing and every await of a pass returns.
RetryInit ==
  /\ InitWith([events |-> MaxEvents, pass |-> Unlimited, overlap |-> 0])
  /\ guildSettings # <<>>

RetryNext ==
  \/ SchedulerFire
  \/ \E k \in Slots : IntervalFire(k)
  \/ \E k \in Slots : ReadDone(k)
  \/ \E k \in Slots : SendDone(k)
  \/ \E k \in Slots : SendFail(k)
  \/ \E k \in Slots : SaveDone(k)
  \/ Tick

RetryFairness ==
  /\ WF_vars(SchedulerFire)
  /\ WF_vars(Tick)
  /\ \A k \in Slots : WF_vars(IntervalFire(k))
  /\ \A k \in Slots : WF_vars(ReadDone(k))
  /\ \A k \in Slots : WF_vars(SendDone(k))
  /\ \A k \in Slots : WF_vars(SaveDone(k))

SpecRetry == RetryInit /\ [][RetryNext]_vars /\ RetryFairness

\* The refresh loop alone, from an empty cache, with item lists whose labels
\* may differ in case only.
CacheInit ==
  /\ InitWith([events |-> Unlimited, pass |-> 0, overlap |-> 0])
  /\ cache = EmptyMap
  /\ guildSettings = <<>>

CacheNext ==
  \/ \E k \in Slots, scraped \in ItemLists \cup CollidingLists \cup {<<>>} :
       RefreshFire(k, scraped)
  \/ \E k \in Slots, content \in Contents : FetchDone(k, content)
  \/ \E k \in Slots : FetchFail(k)
  \/ \E k \in Slots, content \in Contents : WriteFail(k, content)

SpecCache == CacheInit /\ [][CacheNext]_vars

\* The handlers that chunk a content, each given content strings of the
\* sampled lengths: the item command reads the cache, /testping fetches what
\* the source serves, and one notification pass reads the cache.
ChunksInit ==
  \E c \in ChunkInputs :
    BootWith([events |-> 1, pass |-> 1, overlap |-> 0], SampleMinutes[1],
             [x \in {CacheKey(LabelA)} |-> c],
             <<[id |-> "g1", pages |-> <<LabelA>>,
                roles |-> [x \in {LabelA} |-> {"r1"}], channel |-> "c1"]>>)

ChunksNext ==
  \/ SchedulerFire
  \/ \E k \in Slots : IntervalFire(k)
  \/ \E k \in Slots : ReadDone(k)
  \/ \E k \in Slots : SendDone(k)
  \/ \E k \in Slots : SaveDone(k)
  \/ ItemCommand(LabelA)
  \/ ItemCommandRead
  \/ \E g \in Guilds, user \in Users : TestPing(g, user)
  \/ TestPingFetched(readDropdownCache(cache, LabelA))
  \/ TestPingFetchFailed
  \/ CommandSent

SpecChunks == ChunksInit /\ [][ChunksNext]_vars

\* Settings changes and notification passes: the select menu interactions
\* (with and without a failing store write), the passes and rejected sends,
\* with a cache that stays as it is.
CustomIds == {"select_pages", "select_roles", "select_channel"}

ConfigNext ==
  \/ SchedulerFire
  \/ \E k \in Slots : IntervalFire(k)
  \/ \E k \in Slots : ReadDone(k)
  \/ \E k \in Slots : SendDone(k)
  \/ \E k \in Slots : SendFail(k)
  \/ \E k \in Slots : SaveDone(k)
  \/ \E g \in Guilds, values \in PageSelections : SelectPages(g, values)
  \/ \E g \in Guilds, values \in SUBSET Roles : SelectRoles(g, values)
  \/ \E g \in Guilds, ch \in Channels : SelectChannel(g, ch)
  \/ \E g \in Guilds, customId \in CustomIds :
       \E values \in SelectValues(customId) : SelectSaveFails(g, customId, values)
  \/ Tick

SpecConfig == Init /\ [][ConfigNext]_vars

\* The timers with awaits that outlast the interval: a callback of
\* setInterval may fire while its earlier run is still suspended.  Settings
\* and cache are those an earlier run of the bot left, and every fetch
\* returns the same content.
OverlapInit ==
  /\ InitWith([events |-> MaxEvents, pass |-> MaxPass, overlap |-> MaxOverlap + 1])
  /\ guildSettings # <<>>

OverlapNext ==
  \/ SchedulerFire
  \/ \E k \in Slots : IntervalFire(k)
  \/ \E k \in Slots : ReadDone(k)
  \/ \E k \in Slots : SendDone(k)
  \/ \E k \in Slots : SaveDone(k)
  \/ \E k \in Slots, scraped \in ItemLists : RefreshFire(k, scraped)
  \/ \E k \in Slots : FetchDone(k, ContentA)

SpecOverlap == OverlapInit /\ [][OverlapNext]_vars

\* The commands: the ClientReady handler for the item lists of the command
\* labels, then commands invoked by name; every item has cached content and
\* no guild is configured.
CommandsInit ==
  /\ variant \in Variants
  /\ \E items \in LabelLists :
       BootState([events |-> 0, pass |-> 0, overlap |-> 0], SampleMinutes[1],
                 [x \in {CacheKey(l) : l \in CommandLabels} |-> ContentA], <<>>,
                 items, [commands |-> <<>>, table |-> NoTable],
                 [settings |-> <<>>, ledger |-> [g \in {} |-> EmptyMap]], Started)

CommandsNext ==
  \/ ClientReady
  \/ \E g \in Guilds, user \in Users : OtherCommand(g, user)
  \/ \E item \in CommandLabels : ItemCommand(item)
  \/ ItemCommandRead
  \/ \E g \in Guilds, user \in Users : TestPing(g, user)
  \/ CommandSent

SpecCommands == CommandsInit /\ [][CommandsNext]_vars

\* The select menu handler with its awaits: up to two runs at a time, by the
\* owner, an administrator and another member, with replies and store
\* writes that succeed or fail.
SelectNext ==
  \/ \E k \in SelectSlots, g \in Guilds, user \in Users, customId \in CustomIds :
       \E values \in SelectValues(customId) : SelectArrives(k, g, user, customId, values)
  \/ \E k \in SelectSlots : SelectReplied(k)
  \/ \E k \in SelectSlots : SelectReplyFails(k)
  \/ \E k \in SelectSlots : SaveSettingsDone(k)
  \/ \E k \in SelectSlots : SaveSettingsFails(k)

SpecSelect == Init /\ [][SelectNext]_vars

\* Select menu interactions of the owner of one guild while passes run over
\* two configured guilds: the handler's steps interleave with the steps of
\* the passes at their awaits.
ReconfigInit ==
  /\ Init
  /\ guildSettings # <<>>

ReconfigNext ==
  \/ SchedulerFire
  \/ \E k \in Slots : IntervalFire(k)
  \/ \E k \in Slots : ReadDone(k)
  \/ \E k \in Slots : SendDone(k)
  \/ \E k \in Slots : SaveDone(k)
  \/ \E k \in SelectSlots, customId \in {"select_pages", "select_channel"} :
       \E values \in SelectValues(customId) : SelectArrives(k, "g1", "owner", customId, values)
  \/ \E k \in SelectSlots : SelectReplied(k)
  \/ \E k \in SelectSlots : SaveSettingsDone(k)
  \/ Tick

SpecReconfig == ReconfigInit /\ [][ReconfigNext]_vars

\* One call of getAllDropdownItemsAndContent, with a form that lists up to
\* MaxItems items and awaits that return or reject.
ScrapeLists == UNION {[1..n -> Labels] : n \in 0..MaxItems}

ScrapeMessages == {"Dropdown item not found: item", "Waiting for selector failed"}

ScrapeNext ==
  \/ ScrapeCalled
  \/ ScrapeLaunched
  \/ ScrapeLaunchFails
  \/ ScrapeNewPage
  \/ ScrapeNewPageFails
  \/ ScrapeGoto
  \/ \E items \in ScrapeLists : ScrapeItems(items)
  \/ ScrapeTryFails
  \/ \E content \in Contents : ScrapeFetched(content)
  \/ \E message \in ScrapeMessages : ScrapeFetchFails(message)
  \/ ScrapeClosed
  \/ ScrapeCloseFails

SpecScrape == Init /\ [][ScrapeNext]_vars

\* The shared page from the start of startBot on, in the build that keeps
\* its page across refreshes (mongo): the startup launch and cache update,
\* then refresh timer firings and /testping by the owners of two configured
\* guilds.
PageInit ==
  /\ Init
  /\ variant = "mongo"
  /\ guildSettings # <<>>

PageNext ==
  \/ \E ok \in BOOLEAN, scraped \in ItemLists : StartupLaunch(ok, scraped)
  \/ \E scraped \in ItemLists \cup {<<>>} : PageRefreshFire(scraped)
  \/ \E g \in Guilds : PageTestPing(g, "owner")
  \/ \E w \in Fetchers : FetchOpens(w)
  \/ \E w \in Fetchers : FetchNext(w)
  \/ \E w \in Fetchers : FetchReads(w)
  \/ \E w \in Fetchers : FetchBack(w)
  \/ \E w \in Fetchers : FetchThrows(w)

SpecPage == PageInit /\ [][PageNext]_vars

\* The call of startBot, in a process with or without the two environment
\* variables and with stores that an earlier run left or that are empty.
StartInit ==
  /\ variant \in Variants
  /\ \E st \in InitStores, env \in SUBSET {"DISCORD_TOKEN", "MONGODB_URI"},
        led \in {[g \in {} |-> EmptyMap], [g \in {"g1"} |-> [p \in {LabelA} |-> ContentA]]} :
       BootState([events |-> 0, pass |-> 0, overlap |-> 0], SampleMinutes[1],
                 st.cache, <<>>, <<>>, [commands |-> <<>>, table |-> NoTable],
                 [settings |-> st.settings, ledger |-> led], Called(env))

StartNext ==
  \/ StartBotStep
  \/ StartBotConfigMissing
  \/ StartBotRejects
  \/ StartBotCatches
  \/ ModuleLoadsLedger

SpecStartup == StartInit /\ [][StartNext]_vars

\* The ledger and its store: passes whose sends succeed and whose ledger
\* writes succeed or fail, over a cache that stays as it is.
LedgerNext ==
  \/ SchedulerFire
  \/ \E k \in Slots : IntervalFire(k)
  \/ \E k \in Slots : ReadDone(k)
  \/ \E k \in Slots : SendDone(k)
  \/ \E k \in Slots : SaveDone(k)
  \/ \E k \in Slots : SaveSwallowed(k)
  \/ \E k \in Slots : SaveFail(k)
  \/ Tick

SpecLedger == Init /\ [][LedgerNext]_vars

\* The scheduler with its timer: the clock has milliseconds, the timer's
\* callback runs when the timer is due or later, and the awaits of a pass
\* take time.  The bot starts at midnight or a minute before the first slot.
TimerInit ==
  /\ variant = "mongo"
  /\ \E st \in InitStores, minute \in {0, WindowStartHour * 60 + WindowStartMinute - 1} :
       BootWith([events |-> MaxEvents, pass |-> MaxPass, overlap |-> 0], minute,
                st.cache, st.settings)

TimerNext ==
  \/ \E late \in Lateness : TimerWait(late)
  \/ TimerFires
  \/ \E d \in Durations : AwaitTakes(d)
  \/ \E k \in Slots : ReadDone(k)
  \/ \E k \in Slots : SendDone(k)
  \/ \E k \in Slots : SaveDone(k)

SpecTimer == TimerInit /\ [][TimerNext]_vars

\* ----------------------------------------------------------------- claims
Pairs == Guilds \X Labels

\* C1: a pass that ran alone, after a pass that ran alone and completed, sends
\* no message for a pair for which both passes read the same non-empty
\* content; the earlier pass sent messages for that pair exactly when it found
\* the ledger without that content.
C1_SecondPassSilent ==
  \A k \in Slots :
    LET rec == passes[k] IN
    (rec.solo /\ rec.before.ok) =>
      \A pr \in rec.before.exam \cap rec.exam :
        /\ pr \notin rec.msgs
        /\ (pr \in rec.before.msgs) <=> (pr \in rec.before.diff)

\* two completed passes in a row; the first delivered a pair and the second
\* read the same content for it
C1_Witness ==
  \E k \in Slots : \E pr \in Pairs :
    /\ passes[k].pc = "done" /\ passes[k].solo /\ passes[k].before.ok
    /\ pr \in passes[k].before.exam \cap passes[k].exam
    /\ pr \in passes[k].before.msgs

\* C2: between two changes of an item's cached content no pair is sent the
\* first-chunk message of that content more than once.
C2_AtMostOncePerChange == \A pr \in Pairs : primaryCount[pr] <= 1

\* C3: every ledger entry holds a content all of whose chunks were sent for
\* the pair, and an entry changes only in the step in which the send of the
\* last chunk of that content for the pair returns.
C3_LedgerHoldsDelivered ==
  /\ [](\A pr \in Pairs :
          Entry(lastSentContent, pr[1], pr[2]) # NoEntry =>
            <<pr[1], pr[2], Entry(lastSentContent, pr[1], pr[2])>> \in fullySent)
  /\ [][\A pr \in Pairs :
          Entry(lastSentContent', pr[1], pr[2]) # Entry(lastSentContent, pr[1], pr[2]) =>
            \E k \in Slots :
              /\ passes[k].pc = "send" /\ passes'[k].pc = "save"
              /\ <<PassGuild(passes[k]), PassPage(passes[k])>> = pr
              /\ passes[k].j + 1 = MessageCount(passes[k].content)
              /\ Entry(lastSentContent', pr[1], pr[2]) = passes[k].content]_vars

\* one pair was delivered and entered in the ledger; for another the first
\* chunk was sent, a later send was rejected and the ledger has no entry
C3_Witness ==
  /\ \E pr \in Pairs : Entry(lastSentContent, pr[1], pr[2]) # NoEntry
  /\ \E pr \in Pairs : /\ primaryCount[pr] > 0
                       /\ Entry(lastSentContent, pr[1], pr[2]) = NoEntry
                       /\ pr \in unpaid

\* C4: no pass is ended by a rejected send while an item of the guild or a
\* later guild is still to be processed.
C4_FailureIsolated ==
  \A k \in Slots :
    ~(passes[k].pc = "aborted" /\ passes[k].cause = "send" /\ passes[k].leftBehind)

\* C5: a pair whose delivery failed is, with cache and settings unchanged,
\* eventually delivered and entered in the ledger.
C5_RetryDelivers == \A pr \in Pairs : (pr \in unpaid) ~> (pr \notin unpaid)

\* C6: the first pass started after a guild with a channel began to watch an
\* item with cached content and no ledger entry does not end without having
\* delivered that item to the guild.
C6_NextPassDelivers == \A k \in Slots : Ended(passes[k]) => passes[k].owed = {}

\* C7: a pass is never in a send, or in the save after one, for an empty
\* content; it sends no message for a pair it read "" for, and the step that
\* reads "" for a pair leaves the ledger entry of the pair as it was.
C7_EmptyNeverNotifies ==
  /\ [](\A k \in Slots :
          /\ passes[k].pc \in {"send", "save"} => passes[k].content # Empty
          /\ passes[k].blank \cap passes[k].msgs = {})
  /\ [][\A k \in Slots :
          (/\ passes[k].pc = "read"
           /\ readDropdownCache(cache, PassPage(passes[k])) = Empty
           /\ passes'[k].blank # passes[k].blank) =>
            /\ passes'[k].pc # "send"
            /\ Entry(lastSentContent', PassGuild(passes[k]), PassPage(passes[k]))
                 = Entry(lastSentContent, PassGuild(passes[k]), PassPage(passes[k]))]_vars

\* a pass read "" for a pair that has a ledger entry
C7_Witness ==
  \E k \in Slots : \E pr \in passes[k].blank :
    Entry(lastSentContent, pr[1], pr[2]) # NoEntry

\* C8: the gate computes allowed = true at 15:33, 16:03 and 22:00 and
\* allowed = false at 16:00 and 22:30.
C8_MatcherValues ==
  minuteStat.evals > 0 =>
    /\ clock \in {15 * 60 + 33, 16 * 60 + 3, 22 * 60} => minuteStat.allowed
    /\ clock \in {16 * 60, 22 * 60 + 30} => ~minuteStat.allowed

\* C9: the evaluations of the gate within one minute start at most one pass.
C9_OncePerMinute == minuteStat.fires <= 1

\* the gate was evaluated again in a matching minute in which a pass had run
C9_Witness ==
  minuteStat.evals >= 2 /\ minuteStat.fires = 1 /\ minuteStat.allowed

Reassembles(content, out) ==
  /\ Len(out) = (content.len + ChunkSize - 1) \div ChunkSize
  /\ Len(out) > 0
  /\ out[1].body.lo = 0
  /\ out[Len(out)].body.hi = content.len
  /\ \A i \in 1..Len(out) :
       /\ out[i].body.id = content.id
       /\ out[i].body.lo < out[i].body.hi
       /\ out[i].body.hi - out[i].body.lo <= ChunkSize
  /\ \A i \in 1..(Len(out) - 1) :
       /\ out[i].body.hi = out[i + 1].body.lo
       /\ out[i].body.hi - out[i].body.lo = ChunkSize

\* the messages sent so far are the first ones of the messages of the content
SentInOrder(content, out, j) ==
  /\ Len(out) = j
  /\ \A i \in 1..Len(out) : out[i].body = Chunks(content)[i]

\* C12: the messages of a content of length L > 0 that was sent in full (by
\* an item command, /testping or a notification pass) are ceil(L / 1900)
\* slices in order that reproduce the content, each but the last 1900 long;
\* for L = 0 an item command and /testping send exactly one placeholder
\* message, and a notification pass sends nothing.
C12_ChunkRoundTrip ==
  /\ (command.out # <<>> /\ command.pc \in {"done", "fetch"}) =>
       IF command.content = Empty
       THEN Len(command.out) = 1 /\ command.out[1].body = Placeholder
       ELSE Reassembles(command.content, command.out)
  /\ (command.pc = "send" /\ command.content # Empty) =>
       SentInOrder(command.content, command.out, command.j)
  /\ \A k \in Slots :
       /\ passes[k].pc = "save" =>
            /\ passes[k].content # Empty
            /\ Reassembles(passes[k].content, passes[k].out)
       /\ passes[k].pc = "send" =>
            SentInOrder(passes[k].content, passes[k].out, passes[k].j)
       /\ passes[k].blank \cap passes[k].msgs = {}

\* an item command and a notification pass have each sent, in two messages,
\* a content one character longer than a chunk
C12_Witness ==
  /\ command.pc = "done" /\ command.kind = "item"
  /\ command.content.len = ChunkSize + 1 /\ Len(command.out) = 2
  /\ \E k \in Slots : /\ passes[k].pc = "save"
                       /\ passes[k].content.len = ChunkSize + 1
                       /\ Len(passes[k].out) = 2

\* C12 as stated, in a notification pass: a pair whose content was read as
\* "" has been sent a message.
C12_PlaceholderInPass ==
  \A k \in Slots : passes[k].blank \subseteq passes[k].msgs

\* C13: while a pass waits for the send of message j of a pair it has sent
\* exactly the messages 0..j-1 of the pair, and when all n sends have returned
\* exactly n: message i carries chunk i, message 0 the title and as mentions
\* the roles the settings held for the item when the notification began, and
\* the later messages neither title nor mentions.
C13_ChunkingProtocol ==
  /\ [](\A k \in Slots :
          LET rec == passes[k] IN
          rec.pc \in {"send", "save"} =>
            /\ Len(rec.out) = IF rec.pc = "send" THEN rec.j
                              ELSE (rec.content.len + ChunkSize - 1) \div ChunkSize
            /\ \A i \in 1..Len(rec.out) :
                 /\ rec.out[i].body.id = rec.content.id
                 /\ rec.out[i].body.lo = (i - 1) * ChunkSize
                 /\ rec.out[i].title <=> (i = 1)
                 /\ rec.out[i].mentions = IF i = 1 THEN rec.roleIds ELSE {})
  /\ [][\A k \in Slots :
          (passes[k].pc = "read" /\ passes'[k].pc = "send") =>
            /\ passes'[k].j = 0 /\ passes'[k].out = <<>>
            /\ passes'[k].roleIds =
                 LET settings == SettingsOf(guildSettings, PassGuild(passes[k]))
                     p == PassPage(passes[k])
                 IN IF p \in DOMAIN settings.roles THEN settings.roles[p] ELSE {}]_vars

\* a pair was sent in two messages, the first with the mentions of roles
\* that a select_roles interaction had set
C13_Witness ==
  \E k \in Slots :
    /\ passes[k].pc = "save" /\ Len(passes[k].out) = 2
    /\ passes[k].out[1].mentions = Roles
    /\ passes[k].out[2].mentions = {}

\* C14: at most one run of the refresh callback is in progress.
C14_RefreshNeverOverlaps ==
  Cardinality({k \in Slots : ~RefreshEnded(refresh[k])}) <= 1

\* C15: at most one notification pass is in progress.
C15_PassesNeverOverlap ==
  Cardinality({k \in Slots : Active(passes[k])}) <= 1

\* C16: the scheduler of the mongo build is always either waiting for its
\* timer or inside an evaluation that will set the timer again.
C16_SchedulerRearmed ==
  variant = "mongo" => sched.st \in {"timer", "running"}

\* C17: a pass enters the loop body of a guild only if the settings of the
\* guild hold a channel and a non-empty watch set at that moment, and it keeps
\* that channel and that watch set while it is in the guild; every message a
\* pass sends is sent while it is in a guild, for the item of that watch set
\* it is at, whatever the role entries of the guild are.
C17_OnlyConfiguredAndWatched ==
  /\ [](\A k \in Slots :
          Active(passes[k]) =>
            /\ passes[k].channel # Null
            /\ passes[k].pages # <<>>
            /\ passes[k].pi \in 1..Len(passes[k].pages))
  /\ [][\A k \in Slots :
          /\ (passes'[k].gi # passes[k].gi /\ passes'[k].gi # 0) =>
               LET settings == SettingsOf(guildSettings, passes'[k].entries[passes'[k].gi])
               IN /\ settings.channel # Null
                  /\ settings.pages # <<>>
                  /\ passes'[k].channel = settings.channel
                  /\ passes'[k].pages = settings.pages
          /\ (passes'[k].gi = passes[k].gi /\ Active(passes[k]) /\ Active(passes'[k])) =>
               /\ passes'[k].channel = passes[k].channel
               /\ passes'[k].pages = passes[k].pages
          /\ (passes'[k].msgs # passes[k].msgs /\ passes'[k].msgs # {}) =>
               /\ passes[k].pc = "send"
               /\ passes'[k].msgs =
                    passes[k].msgs \cup {<<PassGuild(passes[k]), PassPage(passes[k])>>}]_vars

\* a pass that skipped the first guild has sent a notification to the second
\* guild, whose settings hold a role entry for an item it does not watch
C17_Witness ==
  \E k \in Slots :
    /\ passes[k].pc = "save" /\ passes[k].gi = 2
    /\ OfGuild(passes[k].msgs, passes[k].entries[1]) = {}
    /\ ~Enterable(guildSettings, passes[k].entries[1])
    /\ \E p \in DOMAIN SettingsOf(guildSettings, PassGuild(passes[k])).roles :
         /\ p \notin SeqToSet(passes[k].pages)
         /\ <<PassGuild(passes[k]), p>> \notin passes[k].msgs

\* the position a comes before the position b in the order of the loops
Before(a, b) ==
  \/ a[1] < b[1]
  \/ a[1] = b[1] /\ a[2] < b[2]
  \/ a[1] = b[1] /\ a[2] = b[2] /\ a[3] < b[3]

\* C18: a pass walks the guilds in the order the registry had them when the
\* pass started and the items of a guild in the order of its watch set: its
\* position <<guild, item>> never goes back, and every message it sends is at
\* its position and comes after the message it sent before, so that the
\* messages of a pair are sent in chunk order before any of a later pair.
C18_OrderWithinPass ==
  [][\A k \in Slots :
       /\ (Ended(passes[k]) /\ Active(passes'[k])) =>
            /\ passes'[k].entries = [i \in 1..Len(guildSettings) |-> guildSettings[i].id]
            /\ passes'[k].at = NoPosition
       /\ (Active(passes[k]) /\ Active(passes'[k])) =>
            /\ passes'[k].entries = passes[k].entries
            /\ ~Before(<<passes'[k].gi, passes'[k].pi, 0>>, <<passes[k].gi, passes[k].pi, 0>>)
       /\ (Active(passes[k]) /\ passes'[k].at # passes[k].at) =>
            /\ passes'[k].at = <<passes[k].gi, passes[k].pi, passes[k].j>>
            /\ Before(passes[k].at, passes'[k].at)
            /\ passes'[k].at[3] = IF passes[k].at[1] = passes[k].gi /\ passes[k].at[2] = passes[k].pi
                                  THEN passes[k].at[3] + 1 ELSE 0]_vars

\* a pass has notified both guilds, the first of them for the two items of
\* a watch set a select_pages interaction had given in the order B, a
C18_Witness ==
  \E k \in Slots :
    /\ passes[k].pc = "save" /\ passes[k].gi = 2
    /\ SettingsOf(guildSettings, passes[k].entries[1]).pages = <<LabelB, LabelA>>
    /\ OfGuild(passes[k].msgs, passes[k].entries[1])
         = {<<passes[k].entries[1], LabelA>>, <<passes[k].entries[1], LabelB>>}

\* C19: a step of a pass that is sending to a guild changes no ledger entry
\* but that of the pair it is sending, and a pass that has read the content
\* of a pair sends exactly if the content is not empty and differs from the
\* ledger entry of that very pair, whatever the entries of other guilds are.
C19_LedgerPerTenant ==
  [][\A k \in Slots :
       LET rec == passes[k]
           own == <<PassGuild(rec), PassPage(rec)>>
           moved == <<passes'[k].pc, passes'[k].gi, passes'[k].pi, passes'[k].j>>
                      # <<rec.pc, rec.gi, rec.pi, rec.j>>
       IN /\ (rec.pc = "send" /\ moved) =>
               \A pr \in Pairs \ {own} :
                 Entry(lastSentContent', pr[1], pr[2]) = Entry(lastSentContent, pr[1], pr[2])
          /\ (rec.pc = "read" /\ moved /\ own \in passes'[k].blank \cup passes'[k].exam) =>
               ((/\ passes'[k].pc = "send"
                 /\ passes'[k].gi = rec.gi /\ passes'[k].pi = rec.pi)
                <=> (/\ readDropdownCache(cache, own[2]) # Empty
                     /\ Entry(lastSentContent, own[1], own[2])
                          # readDropdownCache(cache, own[2])))]_vars

\* two guilds watching the same item have both been sent its content, the
\* second by a pass that found the entry of the first already set
C19_Witness ==
  \E p \in Labels :
    /\ Entry(lastSentContent, "g1", p) # NoEntry
    /\ Entry(lastSentContent, "g2", p) = Entry(lastSentContent, "g1", p)
    /\ <<"g1", p, Entry(lastSentContent, "g1", p)>> \in fullySent
    /\ <<"g2", p, Entry(lastSentContent, "g2", p)>> \in fullySent
    /\ \E k \in Slots : passes[k].pc = "save" /\ PassGuild(passes[k]) = "g2"

\* C20: when the store write of saveSettings fails during a select
\* interaction, the error reaches the caller of saveSettings.
C20_SaveFailureSurfaced ==
  saveFailure.seen => saveFailure.error = "thrown"

C30_ItemReachableByItsCommand ==
  \A i \in 1..Len(commands) :
    (command.pc # "idle" /\ command.name = commands[i]) =>
      /\ command.kind = "item"
      /\ command.item = dropdownItems[i]

\* C21: when the user of a select menu has the success reply ('... updated.'
\* or '... set.'), the settings store holds the guild's record as
\* guildSettings holds it.
C21_PersistBeforeSuccess ==
  \A k \in SelectSlots :
    select[k].reply = "updated" =>
      /\ HasSettings(guildSettingsCol, select[k].guild)
      /\ HasSettings(guildSettings, select[k].guild)
      /\ SettingsOf(guildSettingsCol, select[k].guild)
           = SettingsOf(guildSettings, select[k].guild)

\* C23: the select menu handler changes a settings object, sends the success
\* reply and stores only for the owner of the guild.
C23_OwnerOnly ==
  \A k \in SelectSlots :
    (select[k].pc \in {"reply", "save"} \/ select[k].reply = "updated") =>
      select[k].user = "owner"

\* C25: startBot called without DISCORD_TOKEN throws at its first statement:
\* it has started no timer, launched no browser, opened or read no store,
\* registered no handler and loaded nothing, and it never returns; startBot
\* returns only after client.login succeeded, and a rejected login ends it
\* with that error thrown.
C25_MissingTokenFatalAtStartup ==
  /\ "DISCORD_TOKEN" \notin startup.env =>
       /\ startup.did = {}
       /\ startup.at = 1
       /\ startup.pc \in {"running", "thrown"}
       /\ startup.pc = "thrown" => startup.error = "DISCORD_TOKEN"
       /\ guildSettings = <<>>
  /\ startup.pc = "returned" => "login" \in startup.did
  /\ startup.error = "login" => startup.pc = "thrown"

C25_Witness ==
  /\ startup.pc = "thrown"
  /\ startup.error = "DISCORD_TOKEN"
  /\ "MONGODB_URI" \in startup.env
  /\ guildSettingsCol # <<>>

\* C22: whenever a pass is about to examine a pair, every entry of the
\* in-memory ledger is in the ledger store with the same content, so that a
\* process started from the store takes the same decisions.
C22_LedgerPersistedBeforeNextPair ==
  \A k \in Slots :
    passes[k].pc = "read" =>
      \A g \in DOMAIN lastSentContent :
        \A p \in DOMAIN lastSentContent[g] :
          Entry(lastSentContentCol, g, p) = lastSentContent[g][p]

\* C24: a watched page of a usable guild whose cached content is not empty
\* and differs from the ledger is examined by a pass within 5 minutes: while
\* no pass has started, the bot (started at 0:00 or at 15:32) has not been
\* running for more than 5 minutes.
C24_DuePairExaminedWithinFiveMinutes ==
  (/\ budget.pass = MaxPass
   /\ \E i \in 1..Len(guildSettings) :
        /\ Enterable(guildSettings, guildSettings[i].id)
        /\ \E p \in SeqToSet(guildSettings[i].pages) :
             /\ readDropdownCache(cache, p) # Empty
             /\ Entry(lastSentContent, guildSettings[i].id, p)
                  # readDropdownCache(cache, p))
    => clock \notin 6..(WindowStartHour * 60 + WindowStartMinute - 2)

\* C27: the delay given to setTimeout is greater than 0 and at most 60000 ms,
\* and the armed timer is due on a whole-minute boundary of the wall clock.
C27_RescheduleOnMinuteBoundary ==
  /\ sched.delay \in 1..(60 * 1000)
  /\ (sched.st = "timer" /\ sched.left > 0) =>
       (millis + sched.left) % (60 * 1000) = 0

\* C28: in a matching minute in which the gate was evaluated a pass was
\* started (in that minute of that day).
C28_GuardNeverSuppressesSlot ==
  (variant = "mongo" /\ minuteStat.evals > 0 /\ minuteStat.allowed) =>
    minuteStat.fires >= 1

\* C31: when a select_pages run and a select_channel run for the same guild
\* have both completed, and the guild had no record when one of them
\* arrived, the guild's record holds the selected pages and the selected
\* channel.
C31_NoLostUpdate ==
  \A j \in SelectSlots, k \in SelectSlots :
    (/\ select[j].pc = "done" /\ select[j].reply = "updated"
     /\ select[k].pc = "done" /\ select[k].reply = "updated"
     /\ select[j].customId = "select_pages"
     /\ select[k].customId = "select_channel"
     /\ select[j].guild = select[k].guild
     /\ select[j].fresh \/ select[k].fresh)
    => /\ HasSettings(guildSettings, select[j].guild)
       /\ SettingsOf(guildSettings, select[j].guild).pages # <<>>
       /\ SettingsOf(guildSettings, select[j].guild).channel # Null

C33_ResubscriptionKeepsLedger ==
  [][/\ (select' # select) => (lastSentContent' = lastSentContent)
     /\ \A i \in Slots :
          (passes[i].pc = "read" /\ passes'[i].pc = "send")
          => Entry(lastSentContent, PassGuild(passes[i]), PassPage(passes[i]))
               # readDropdownCache(cache, PassPage(passes[i]))]_vars

\* a guild's owner watched an item again whose content had been delivered
\* and is still what the cache holds; the pass that started afterwards
\* examined the pair and sent nothing for it
C33_Witness ==
  \E k \in SelectSlots :
    /\ select[k].pc = "done"
    /\ select[k].customId = "select_pages"
    /\ LabelA \in select[k].again
    /\ budget.pass = select[k].since - 1
    /\ Alone
    /\ <<select[k].guild, LabelA>> \in prev.exam
    /\ <<select[k].guild, LabelA>> \notin prev.msgs
    /\ Entry(lastSentContent, select[k].guild, LabelA) = readDropdownCache(cache, LabelA)

\* C33 (as stated): the pass after a re-subscription sends a notification
\* for the item that was watched again
C33_ResubscribedPairNotified ==
  \A k \in SelectSlots : \A p \in select[k].again :
    (/\ select[k].pc = "done"
     /\ budget.pass = select[k].since - 1
     /\ Alone
     /\ <<select[k].guild, p>> \in prev.exam)
    => <<select[k].guild, p>> \in prev.msgs

\* C32: whenever a pass calls channel.send, the channel it sends to is
\* the guild's configured channel and the item it sends for is in the
\* guild's watch set, as guildSettings holds them when the send is called
C32_SendsFollowConfiguration ==
  [][\A i \in Slots :
       (/\ passes'[i].pc = "send"
        /\ passes[i].pc # "send" \/ passes'[i].j # passes[i].j)
       => LET g == PassGuild(passes'[i])
              settings == SettingsOf(guildSettings', g)
          IN /\ passes'[i].channel = settings.channel
             /\ PassPage(passes'[i]) \in SeqToSet(settings.pages)]_vars

\* C36: a call of getAllDropdownItemsAndContent that returns has one result
\* per listed item, in list order, a failed fetch giving an entry with
\* content null and the error's message; and when the call has returned or
\* thrown, the browser it launched is closed (unless browser.close itself
\* rejected)
C36_ResultsPerItemAndBrowserClosed ==
  /\ scrape.outcome = "returned"
     => /\ Len(scrape.results) = Len(scrape.items)
        /\ \A i \in 1..Len(scrape.items) :
             /\ scrape.results[i].item = scrape.items[i]
             /\ (scrape.results[i].content = NullContent)
                  <=> (scrape.results[i].error # "none")
  /\ (scrape.outcome # "none" /\ scrape.browser # "none" /\ ~scrape.closeFailed)
     => scrape.browser = "closed"

\* C35: at most one getContentForDropdownItem is in progress on the shared
\* page at any time, and content that was written to the cache for an item
\* was read for that same item
C35_ExclusivePageUse ==
  /\ Cardinality({w \in Fetchers : browserPage.runs[w].pc # "idle"}) <= 1
  /\ \A pr \in browserPage.wrote : pr[1] = pr[2]

====
